---- MODULE Spec2Model ----
(***************************************************************************)
(* Model of the INA226 register-level driver (Core/Src/driver_ina226.c).   *)
(* One handle, one device behind an injected byte transport.  Every driver *)
(* operation is one action; the transport's answers (failure of a call,    *)
(* the status bits the device shows, the identity it reports) are inputs   *)
(* of the action.  The transport calls an operation issues are recorded in *)
(* `calls`, its result in `ret`, the handle before the call in `pre`.      *)
(***************************************************************************)
EXTENDS Integers, Sequences, FiniteSets, TLC

VARIABLES
    inited,     \* handle->inited
    trigger,    \* handle->trigger
    linked,     \* the injected capabilities of the handle that are non-NULL
    r,          \* handle->r, the shunt resistance, in nano-ohm
    iic_addr,   \* handle->iic_addr
    current_lsb,\* handle->current_lsb, amperes per count, as a fraction
    conf,       \* device: configuration register (0x00)
    mask,       \* device: the bits of the mask/enable register (0x06) it stores
    calibration,\* device: calibration register (0x05)
    alert_limit,\* device: alert limit register (0x07)
    op,         \* last driver operation called
    inp,        \* its inputs: arguments and the transport's answers
    ret,        \* its return code
    out,        \* the value it stored through its output pointer (-1: none)
    converted,  \* the converted value a read operation stored (<<>>: none)
    calls,      \* the transport calls it issued, in order
    pre,        \* handle and device as they were when it was called
    last,       \* the call the caller made before this one, once it took its result
    threads,    \* two calls in progress on two threads: their locals and position
    mon         \* the monitor application: its two sensors, channels, ticks, flags

vars == <<inited, trigger, linked, r, iic_addr, current_lsb, conf, mask, calibration,
          alert_limit,
          op, inp, ret, out, converted, calls, pre, last, threads, mon>>

\* what the operations on the configuration register, the reads and the
\* handle accessors leave alone
ext == <<current_lsb, mask, calibration, alert_limit, last, threads, mon>>

----------------------------------------------------------------------------
(* Bounds of the model *)

\* the poll budget the driver is built with (-DINA226_READ_TIMEOUT=...); the
\* model runs the poll loop with a small budget and every device script
MaxReadTimeout == 4

\* number of capabilities that may be left unlinked at a time
MaxMissing == 1

----------------------------------------------------------------------------
(* Register addresses and constants of the driver *)

INA226_REG_CONF == 0
INA226_REG_SHUNT_VOLTAGE == 1
INA226_REG_BUS_VOLTAGE == 2
INA226_REG_POWER == 3
INA226_REG_CURRENT == 4
INA226_REG_CALIBRATION == 5
INA226_REG_MASK == 6
INA226_REG_ALERT_LIMIT == 7
INA226_REG_MANUFACTURER == 254
INA226_REG_DIE == 255

\* #ifndef INA226_READ_TIMEOUT / #define INA226_READ_TIMEOUT 1000: a build-time
\* macro, here the budget of the model
INA226_READ_TIMEOUT == MaxReadTimeout

MANUFACTURER_ID == 21577           \* 0x5449
INIT_DELAY_MS == 10

INA226_MODE_POWER_DOWN == 0
INA226_MODE_SHUNT_VOLTAGE_TRIGGERED == 1
INA226_MODE_BUS_VOLTAGE_TRIGGERED == 2
INA226_MODE_SHUNT_BUS_VOLTAGE_TRIGGERED == 3

Modes == 0 .. 7

Caps == {"iic_init", "iic_deinit", "iic_read", "iic_write",
         "delay_ms", "debug_print", "receive_callback"}

----------------------------------------------------------------------------
(* 16-bit arithmetic *)

Pow2(n) == 2 ^ n

Bit(v, n) == (v \div Pow2(n)) % 2

U16(v) == v % 65536

\* v | (1 << n)
SetBit(v, n) == IF Bit(v, n) = 1 THEN v ELSE v + Pow2(n)

\* v & ~(1 << n)
ClearBit(v, n) == IF Bit(v, n) = 1 THEN v - Pow2(n) ELSE v

\* (v & ~(0x7 << s)) | (f << s)
SetField3(v, s, f) == U16(v - ((v \div Pow2(s)) % 8) * Pow2(s) + f * Pow2(s))

\* (v >> s) & 0x7
GetField3(v, s) == (v \div Pow2(s)) % 8

----------------------------------------------------------------------------
(* Transport calls *)

Call(c, reg, data, ok) == [call |-> c, reg |-> reg, data |-> data, ok |-> ok]

Rd(reg, data) == Call("read", reg, data, TRUE)
RdFail(reg) == Call("read", reg, 0, FALSE)
Wr(reg, data) == Call("write", reg, data, TRUE)
WrFail(reg, data) == Call("write", reg, data, FALSE)
Delay(ms) == Call("delay", 0, ms, TRUE)
Callback(type) == Call("callback", 0, type, TRUE)
Open(ok) == Call("open", 0, 0, ok)
Close(ok) == Call("close", 0, 0, ok)

\* the inputs of a call that it does not use
NoInp == [h |-> TRUE, a |-> 0, b |-> 0, fail |-> 0, id |-> 0, resetOk |-> TRUE,
          closeOk |-> TRUE, ovf |-> 0, cvrf |-> 0, readyAt |-> 0, pollFail |-> 0,
          raw |-> 0, aff |-> 0]

Handle == [inited |-> inited, trigger |-> trigger, conf |-> conf,
           linked |-> linked, r |-> r, iic_addr |-> iic_addr,
           current_lsb |-> current_lsb, mask |-> mask,
           calibration |-> calibration, alert_limit |-> alert_limit]

\* no earlier call
NoLast == [op |-> "none", inp |-> NoInp, ret |-> 0, out |-> -1,
           converted |-> <<>>]

\* the threads that call the driver
Threads == 1 .. 2

\* no call in progress on any thread; exclusive: the caller serializes its
\* calls, holder: the thread whose call is in progress then (0 none)
NoThreads == [exclusive |-> FALSE, holder |-> 0,
              pc |-> [t \in Threads |-> "idle"],
              prev |-> [t \in Threads |-> 0],
              inp |-> [t \in Threads |-> NoInp],
              ret |-> [t \in Threads |-> 0]]

\* current_lsb of zero-initialized storage
ZeroLsb == [num |-> 0, den |-> 1]

\* the two sensors of the monitor application: 1 the bus sensor
\* (g_ina226_bus, g_ch_bus, g_alert1_flag), 2 the battery sensor
Sensors == 1 .. 2

\* a 32-bit unsigned value as its two 16-bit halves
Word32(hi, lo) == [hi |-> hi, lo |-> lo]

\* a pdm_channel_t of zeroes
ZeroChannel == [voltage_mV |-> 0, current_mA |-> 0, power_mW |-> 0, energy_mWh |-> 0]

----------------------------------------------------------------------------
(* The device *)

\* power-on content of the configuration register: AVG 1, both conversion
\* times 1.1 ms, shunt and bus continuous (reads 0x4127)
ConfResetValue == SetField3(SetField3(SetField3(Pow2(14), 6, 4), 3, 4), 0, 7)

\* the content of register reg, which stores what is written to it, after
\* the transport calls cs, when it held val before them
DevWritten(reg, val, cs) ==
    LET W == {k \in 1 .. Len(cs) :
                 cs[k].call = "write" /\ cs[k].ok /\ cs[k].reg = reg}
    IN  IF W = {} THEN val
        ELSE cs[CHOOSE k \in W : \A j \in W : j <= k].data

\* a write to the configuration register: with the reset bit set the device
\* resets, and the bit self-clears
DevWriteConf(data) == IF Bit(data, 15) = 1 THEN ConfResetValue ELSE data

\* what the configuration register reads after the settle delay of a reset:
\* the reset bit still shows when the device has not completed the reset
DevReadAfterReset(cf, resetOk) == IF resetOk THEN cf ELSE SetBit(cf, 15)

\* a handle in zero-initialized storage (static ina226_handle_t), and its
\* device after power-on
ZeroHandle == [inited |-> 0, trigger |-> 0, conf |-> ConfResetValue,
               linked |-> {}, r |-> 0, iic_addr |-> 0,
               current_lsb |-> ZeroLsb, mask |-> 0, calibration |-> 0,
               alert_limit |-> 0]

\* the periodic tasks of PDM_Monitor_Update
Tasks == {"read", "can", "uart"}

\* the monitor application before PDM_Monitor_Init.  Program state: h the
\* two handles with their devices, ch the two channels, tick the HAL
\* millisecond counter, now the tick PDM_Monitor_Update has sampled,
\* last_tick the three g_last_*_tick, alert_flag the two g_alert*_flag, pc
\* the position of the main loop and s the sensor whose flag it is at (0
\* none).  History: log the driver calls the last step has made, fired the
\* periodic tasks it has run, in order, before the channels and the elapsed
\* times before it, init_ret what ina226_init returned (-1 not called),
\* elapsed the milliseconds that have really passed since a task last ran, pending whether the flag has been set and
\* ina226_irq_handler has not been entered since, age the number of Update
\* calls begun while it has been pending, cleared whether the
\* current Update call has cleared the flag, uptime the milliseconds since
\* power-on, elapses the number of delays between Update calls so far.
NoMon == [pc |-> "boot",
          s |-> 0,
          h |-> [s \in Sensors |-> ZeroHandle],
          ch |-> [s \in Sensors |-> ZeroChannel],
          tick |-> Word32(0, 0),
          now |-> Word32(0, 0),
          last_tick |-> [k \in Tasks |-> Word32(0, 0)],
          alert_flag |-> [s \in Sensors |-> 0],
          log |-> <<>>,
          fired |-> <<>>,
          init_ret |-> [s \in Sensors |-> -1],
          before |-> [ch |-> [s \in Sensors |-> ZeroChannel],
                      elapsed |-> [k \in Tasks |-> 0]],
          elapsed |-> [k \in Tasks |-> 0],
          pending |-> [s \in Sensors |-> FALSE],
          cleared |-> [s \in Sensors |-> FALSE],
          age |-> [s \in Sensors |-> 0],
          uptime |-> 0,
          elapses |-> 0]

----------------------------------------------------------------------------
(* Results of an operation: return code, output, transport calls issued,   *)
(* and the handle and device it leaves                                     *)

Res(rc, o, cs, i, t, cf) ==
    [ret |-> rc, out |-> o, calls |-> cs, inited |-> i, trigger |-> t, conf |-> cf]

\* the operation returns rc after the calls cs, handle and device untouched
Keep(H, rc, cs) == Res(rc, -1, cs, H.inited, H.trigger, H.conf)

\* the same with an output value stored
KeepOut(H, rc, o, cs) == Res(rc, o, cs, H.inited, H.trigger, H.conf)

\* faulty variant: the initialization check is missing
NotInited_unchecked(i) == FALSE

\* if (handle->inited != 1) return 3;
NotInited(i) == i # 1

----------------------------------------------------------------------------
(* ina226_init *)

\* faulty variant: only the low byte of the identity is compared
IdValid_low_byte(prev) == prev % 256 = MANUFACTURER_ID % 256

\* if (prev != 0x5449) -> id is invalid
IdValid(prev) == prev = MANUFACTURER_ID

\* faulty variant: the reset bit is not checked after the re-read
ResetConfirmed_unchecked(prev) == TRUE

\* if ((prev & (1 << 15)) != 0) -> soft reset failed
ResetConfirmed(prev) == Bit(prev, 15) = 0

\* faulty variant: the check of the capabilities leaves out receive_callback
ina226_init_callback_unchecked(H, i) ==
    LET Fail(rc, cs, cf) ==
            Res(rc, -1, cs \o <<Close(i.closeOk)>>, H.inited, H.trigger, cf)
        c1 == <<Open(TRUE)>>
        c2 == c1 \o <<Rd(INA226_REG_MANUFACTURER, i.id)>>
        c3 == c2 \o <<Rd(INA226_REG_CONF, H.conf)>>
        prev == SetBit(H.conf, 15)
        dev == DevWriteConf(prev)
        c4 == c3 \o <<Wr(INA226_REG_CONF, prev), Delay(INIT_DELAY_MS)>>
        again == DevReadAfterReset(dev, i.resetOk)
        c5 == c4 \o <<Rd(INA226_REG_CONF, again)>>
    IN  IF ~i.h THEN Keep(H, 2, <<>>)
        ELSE IF H.linked \cup {"receive_callback"} # Caps THEN Keep(H, 3, <<>>)
        ELSE IF i.fail = 1 THEN Keep(H, 1, <<Open(FALSE)>>)
        ELSE IF i.fail = 2
            THEN Fail(4, c1 \o <<RdFail(INA226_REG_MANUFACTURER)>>, H.conf)
        ELSE IF ~IdValid(i.id) THEN Fail(4, c2, H.conf)
        ELSE IF i.fail = 3 THEN Fail(5, c2 \o <<RdFail(INA226_REG_CONF)>>, H.conf)
        ELSE IF i.fail = 4
            THEN Fail(5, c3 \o <<WrFail(INA226_REG_CONF, prev)>>, H.conf)
        ELSE IF i.fail = 5 THEN Fail(5, c4 \o <<RdFail(INA226_REG_CONF)>>, dev)
        ELSE IF ~ResetConfirmed(again) THEN Fail(5, c5, dev)
        ELSE Res(0, -1, c5, 1, 0, dev)

\* faulty variant: the exit for a reset that did not complete leaves the
\* transport open
ina226_init_leaks_open(H, i) ==
    LET Fail(rc, cs, cf) ==
            Res(rc, -1, cs \o <<Close(i.closeOk)>>, H.inited, H.trigger, cf)
        c1 == <<Open(TRUE)>>
        c2 == c1 \o <<Rd(INA226_REG_MANUFACTURER, i.id)>>
        c3 == c2 \o <<Rd(INA226_REG_CONF, H.conf)>>
        prev == SetBit(H.conf, 15)
        dev == DevWriteConf(prev)
        c4 == c3 \o <<Wr(INA226_REG_CONF, prev), Delay(INIT_DELAY_MS)>>
        again == DevReadAfterReset(dev, i.resetOk)
        c5 == c4 \o <<Rd(INA226_REG_CONF, again)>>
    IN  IF ~i.h THEN Keep(H, 2, <<>>)
        ELSE IF H.linked # Caps THEN Keep(H, 3, <<>>)
        ELSE IF i.fail = 1 THEN Keep(H, 1, <<Open(FALSE)>>)
        ELSE IF i.fail = 2
            THEN Fail(4, c1 \o <<RdFail(INA226_REG_MANUFACTURER)>>, H.conf)
        ELSE IF ~IdValid(i.id) THEN Fail(4, c2, H.conf)
        ELSE IF i.fail = 3 THEN Fail(5, c2 \o <<RdFail(INA226_REG_CONF)>>, H.conf)
        ELSE IF i.fail = 4
            THEN Fail(5, c3 \o <<WrFail(INA226_REG_CONF, prev)>>, H.conf)
        ELSE IF i.fail = 5 THEN Fail(5, c4 \o <<RdFail(INA226_REG_CONF)>>, dev)
        ELSE IF ~ResetConfirmed(again) THEN Res(5, -1, c5, H.inited, H.trigger, dev)
        ELSE Res(0, -1, c5, 1, 0, dev)

\* faulty variant: the settle delay follows the re-read of the configuration
\* register
ina226_init_delay_last(H, i) ==
    LET Fail(rc, cs, cf) ==
            Res(rc, -1, cs \o <<Close(i.closeOk)>>, H.inited, H.trigger, cf)
        c1 == <<Open(TRUE)>>
        c2 == c1 \o <<Rd(INA226_REG_MANUFACTURER, i.id)>>
        c3 == c2 \o <<Rd(INA226_REG_CONF, H.conf)>>
        prev == SetBit(H.conf, 15)
        dev == DevWriteConf(prev)
        c4 == c3 \o <<Wr(INA226_REG_CONF, prev)>>
        again == DevReadAfterReset(dev, i.resetOk)
        c5 == c4 \o <<Rd(INA226_REG_CONF, again), Delay(INIT_DELAY_MS)>>
    IN  IF ~i.h THEN Keep(H, 2, <<>>)
        ELSE IF H.linked # Caps THEN Keep(H, 3, <<>>)
        ELSE IF i.fail = 1 THEN Keep(H, 1, <<Open(FALSE)>>)
        ELSE IF i.fail = 2
            THEN Fail(4, c1 \o <<RdFail(INA226_REG_MANUFACTURER)>>, H.conf)
        ELSE IF ~IdValid(i.id) THEN Fail(4, c2, H.conf)
        ELSE IF i.fail = 3 THEN Fail(5, c2 \o <<RdFail(INA226_REG_CONF)>>, H.conf)
        ELSE IF i.fail = 4
            THEN Fail(5, c3 \o <<WrFail(INA226_REG_CONF, prev)>>, H.conf)
        ELSE IF i.fail = 5 THEN Fail(5, c4 \o <<RdFail(INA226_REG_CONF)>>, dev)
        ELSE IF ~ResetConfirmed(again) THEN Fail(5, c5, dev)
        ELSE Res(0, -1, c5, 1, 0, dev)

\* i.fail numbers the transport call that fails: 1 iic_init, 2 the read of
\* the manufacturer register, 3 the read of the configuration register,
\* 4 its write, 5 its re-read; 0 none; i.id the identity the device reports,
\* i.resetOk whether the reset completed within the delay, i.closeOk the
\* result of iic_deinit
ina226_init(H, i) ==
    LET Fail(rc, cs, cf) ==
            Res(rc, -1, cs \o <<Close(i.closeOk)>>, H.inited, H.trigger, cf)
        c1 == <<Open(TRUE)>>
        c2 == c1 \o <<Rd(INA226_REG_MANUFACTURER, i.id)>>
        c3 == c2 \o <<Rd(INA226_REG_CONF, H.conf)>>
        prev == SetBit(H.conf, 15)
        dev == DevWriteConf(prev)
        c4 == c3 \o <<Wr(INA226_REG_CONF, prev), Delay(INIT_DELAY_MS)>>
        again == DevReadAfterReset(dev, i.resetOk)
        c5 == c4 \o <<Rd(INA226_REG_CONF, again)>>
    IN  IF ~i.h THEN Keep(H, 2, <<>>)
        ELSE IF H.linked # Caps THEN Keep(H, 3, <<>>)
        ELSE IF i.fail = 1 THEN Keep(H, 1, <<Open(FALSE)>>)
        ELSE IF i.fail = 2
            THEN Fail(4, c1 \o <<RdFail(INA226_REG_MANUFACTURER)>>, H.conf)
        ELSE IF ~IdValid(i.id) THEN Fail(4, c2, H.conf)
        ELSE IF i.fail = 3 THEN Fail(5, c2 \o <<RdFail(INA226_REG_CONF)>>, H.conf)
        ELSE IF i.fail = 4
            THEN Fail(5, c3 \o <<WrFail(INA226_REG_CONF, prev)>>, H.conf)
        ELSE IF i.fail = 5 THEN Fail(5, c4 \o <<RdFail(INA226_REG_CONF)>>, dev)
        ELSE IF ~ResetConfirmed(again) THEN Fail(5, c5, dev)
        ELSE Res(0, -1, c5, 1, 0, dev)

----------------------------------------------------------------------------
(* ina226_deinit *)

\* faulty variant: deinit closes the transport although the power-down write failed
ina226_deinit_closes_anyway(H, i) ==
    LET prev == SetField3(H.conf, 0, INA226_MODE_POWER_DOWN)
        c1 == <<Rd(INA226_REG_CONF, H.conf)>>
        c2 == c1 \o <<Wr(INA226_REG_CONF, prev)>>
        dev == DevWriteConf(prev)
    IN  IF ~i.h THEN Keep(H, 2, <<>>)
        ELSE IF NotInited(H.inited) THEN Keep(H, 3, <<>>)
        ELSE IF i.fail = 1 THEN Keep(H, 4, <<RdFail(INA226_REG_CONF)>>)
        ELSE IF i.fail = 2
            THEN Keep(H, IF i.closeOk THEN 4 ELSE 1,
                      c1 \o <<WrFail(INA226_REG_CONF, prev), Close(i.closeOk)>>)
        ELSE IF ~i.closeOk
            THEN Res(1, -1, c2 \o <<Close(FALSE)>>, H.inited, H.trigger, dev)
        ELSE Res(0, -1, c2 \o <<Close(TRUE)>>, H.inited, H.trigger, dev)

\* i.fail: 1 the read of the configuration register, 2 its write; 0 none;
\* i.closeOk the result of iic_deinit
ina226_deinit(H, i) ==
    LET prev == SetField3(H.conf, 0, INA226_MODE_POWER_DOWN)
        c1 == <<Rd(INA226_REG_CONF, H.conf)>>
        c2 == c1 \o <<Wr(INA226_REG_CONF, prev)>>
        dev == DevWriteConf(prev)
    IN  IF ~i.h THEN Keep(H, 2, <<>>)
        ELSE IF NotInited(H.inited) THEN Keep(H, 3, <<>>)
        ELSE IF i.fail = 1 THEN Keep(H, 4, <<RdFail(INA226_REG_CONF)>>)
        ELSE IF i.fail = 2 THEN Keep(H, 4, c1 \o <<WrFail(INA226_REG_CONF, prev)>>)
        ELSE IF ~i.closeOk
            THEN Res(1, -1, c2 \o <<Close(FALSE)>>, H.inited, H.trigger, dev)
        ELSE Res(0, -1, c2 \o <<Close(TRUE)>>, H.inited, H.trigger, dev)

----------------------------------------------------------------------------
(* Configuration register: soft reset, field setters and getters *)

\* faulty variant: only the reset bit is written, and trigger is cleared
ina226_soft_reset_bare(H, i) ==
    LET prev == Pow2(15)
        c1 == <<Rd(INA226_REG_CONF, H.conf)>>
    IN  IF ~i.h THEN Keep(H, 2, <<>>)
        ELSE IF NotInited(H.inited) THEN Keep(H, 3, <<>>)
        ELSE IF i.fail = 1 THEN Keep(H, 1, <<RdFail(INA226_REG_CONF)>>)
        ELSE IF i.fail = 2 THEN Keep(H, 1, c1 \o <<WrFail(INA226_REG_CONF, prev)>>)
        ELSE Res(0, -1, c1 \o <<Wr(INA226_REG_CONF, prev)>>, H.inited, 0,
                 DevWriteConf(prev))

\* i.fail: 1 the read of the configuration register, 2 its write; 0 none
ina226_soft_reset(H, i) ==
    LET prev == SetBit(ClearBit(H.conf, 15), 15)
        c1 == <<Rd(INA226_REG_CONF, H.conf)>>
    IN  IF ~i.h THEN Keep(H, 2, <<>>)
        ELSE IF NotInited(H.inited) THEN Keep(H, 3, <<>>)
        ELSE IF i.fail = 1 THEN Keep(H, 1, <<RdFail(INA226_REG_CONF)>>)
        ELSE IF i.fail = 2 THEN Keep(H, 1, c1 \o <<WrFail(INA226_REG_CONF, prev)>>)
        ELSE Res(0, -1, c1 \o <<Wr(INA226_REG_CONF, prev)>>, H.inited, H.trigger,
                 DevWriteConf(prev))

\* faulty variant: the setter clears four bits (0xF << s) instead of three
ConfSetField_wide_clear(H, i, s) ==
    LET prev == SetField3(ClearBit(H.conf, s + 3), s, i.a)
        c1 == <<Rd(INA226_REG_CONF, H.conf)>>
    IN  IF ~i.h THEN Keep(H, 2, <<>>)
        ELSE IF NotInited(H.inited) THEN Keep(H, 3, <<>>)
        ELSE IF i.fail = 1 THEN Keep(H, 1, <<RdFail(INA226_REG_CONF)>>)
        ELSE IF i.fail = 2 THEN Keep(H, 1, c1 \o <<WrFail(INA226_REG_CONF, prev)>>)
        ELSE Res(0, -1, c1 \o <<Wr(INA226_REG_CONF, prev)>>, H.inited, H.trigger,
                 DevWriteConf(prev))

\* read-modify-write of the 3-bit field at bit s with the value i.a
ConfSetField(H, i, s) ==
    LET prev == SetField3(H.conf, s, i.a)
        c1 == <<Rd(INA226_REG_CONF, H.conf)>>
    IN  IF ~i.h THEN Keep(H, 2, <<>>)
        ELSE IF NotInited(H.inited) THEN Keep(H, 3, <<>>)
        ELSE IF i.fail = 1 THEN Keep(H, 1, <<RdFail(INA226_REG_CONF)>>)
        ELSE IF i.fail = 2 THEN Keep(H, 1, c1 \o <<WrFail(INA226_REG_CONF, prev)>>)
        ELSE Res(0, -1, c1 \o <<Wr(INA226_REG_CONF, prev)>>, H.inited, H.trigger,
                 DevWriteConf(prev))

\* read of the 3-bit field at bit s
ConfGetField(H, i, s) ==
    IF ~i.h THEN Keep(H, 2, <<>>)
    ELSE IF NotInited(H.inited) THEN Keep(H, 3, <<>>)
    ELSE IF i.fail = 1 THEN Keep(H, 1, <<RdFail(INA226_REG_CONF)>>)
    ELSE KeepOut(H, 0, GetField3(H.conf, s), <<Rd(INA226_REG_CONF, H.conf)>>)

ina226_set_average_mode(H, i) == ConfSetField(H, i, 9)

ina226_get_average_mode(H, i) == ConfGetField(H, i, 9)

ina226_set_bus_voltage_conversion_time(H, i) == ConfSetField(H, i, 6)

ina226_get_bus_voltage_conversion_time(H, i) == ConfGetField(H, i, 6)

ina226_set_shunt_voltage_conversion_time(H, i) == ConfSetField(H, i, 3)

ina226_get_shunt_voltage_conversion_time(H, i) == ConfGetField(H, i, 3)

ina226_get_mode(H, i) == ConfGetField(H, i, 0)

\* faulty variant: a range test that takes shutdown (4) for a triggered mode
IsTriggeredMode_range(mode) == mode >= 1 /\ mode <= 4

\* the three single-shot modes
IsTriggeredMode(mode) ==
    \/ mode = INA226_MODE_SHUNT_VOLTAGE_TRIGGERED
    \/ mode = INA226_MODE_BUS_VOLTAGE_TRIGGERED
    \/ mode = INA226_MODE_SHUNT_BUS_VOLTAGE_TRIGGERED

\* faulty variant: trigger is assigned before the write
ina226_set_mode_trigger_first(H, i) ==
    LET prev == SetField3(H.conf, 0, i.a)
        c1 == <<Rd(INA226_REG_CONF, H.conf)>>
        t == IF IsTriggeredMode(i.a) THEN 1 ELSE 0
    IN  IF ~i.h THEN Keep(H, 2, <<>>)
        ELSE IF NotInited(H.inited) THEN Keep(H, 3, <<>>)
        ELSE IF i.fail = 1 THEN Keep(H, 1, <<RdFail(INA226_REG_CONF)>>)
        ELSE IF i.fail = 2
            THEN Res(1, -1, c1 \o <<WrFail(INA226_REG_CONF, prev)>>, H.inited, t, H.conf)
        ELSE Res(0, -1, c1 \o <<Wr(INA226_REG_CONF, prev)>>, H.inited, t,
                 DevWriteConf(prev))

\* faulty variant: the mode is written over the power-on content instead of
\* the content read
ina226_set_mode_overwrite(H, i) ==
    LET prev == SetField3(ConfResetValue, 0, i.a)
        c1 == <<Rd(INA226_REG_CONF, H.conf)>>
    IN  IF ~i.h THEN Keep(H, 2, <<>>)
        ELSE IF NotInited(H.inited) THEN Keep(H, 3, <<>>)
        ELSE IF i.fail = 1 THEN Keep(H, 1, <<RdFail(INA226_REG_CONF)>>)
        ELSE IF i.fail = 2 THEN Keep(H, 1, c1 \o <<WrFail(INA226_REG_CONF, prev)>>)
        ELSE Res(0, -1, c1 \o <<Wr(INA226_REG_CONF, prev)>>, H.inited,
                 IF IsTriggeredMode(i.a) THEN 1 ELSE 0,
                 DevWriteConf(prev))

\* i.fail: 1 the read of the configuration register, 2 its write; 0 none
ina226_set_mode(H, i) ==
    LET prev == SetField3(H.conf, 0, i.a)
        c1 == <<Rd(INA226_REG_CONF, H.conf)>>
    IN  IF ~i.h THEN Keep(H, 2, <<>>)
        ELSE IF NotInited(H.inited) THEN Keep(H, 3, <<>>)
        ELSE IF i.fail = 1 THEN Keep(H, 1, <<RdFail(INA226_REG_CONF)>>)
        ELSE IF i.fail = 2 THEN Keep(H, 1, c1 \o <<WrFail(INA226_REG_CONF, prev)>>)
        ELSE Res(0, -1, c1 \o <<Wr(INA226_REG_CONF, prev)>>, H.inited,
                 IF IsTriggeredMode(i.a) THEN 1 ELSE 0,
                 DevWriteConf(prev))

----------------------------------------------------------------------------
(* Raw register access *)

\* i.a the register, i.b the data; i.fail: 1 the write
ina226_set_reg(H, i) ==
    IF ~i.h THEN Keep(H, 2, <<>>)
    ELSE IF NotInited(H.inited) THEN Keep(H, 3, <<>>)
    ELSE IF i.fail = 1 THEN Keep(H, 1, <<WrFail(i.a, i.b)>>)
    ELSE Res(0, -1, <<Wr(i.a, i.b)>>, H.inited, H.trigger,
             IF i.a = INA226_REG_CONF THEN DevWriteConf(i.b) ELSE H.conf)

\* i.a the register; the device answers the configuration register's
\* content, and i.raw for any other register; i.fail: 1 the read
ina226_get_reg(H, i) ==
    LET data == IF i.a = INA226_REG_CONF THEN H.conf
                ELSE IF i.a = INA226_REG_CALIBRATION THEN H.calibration
                ELSE i.raw
    IN  IF ~i.h THEN Keep(H, 2, <<>>)
        ELSE IF NotInited(H.inited) THEN Keep(H, 3, <<>>)
        ELSE IF i.fail = 1 THEN Keep(H, 1, <<RdFail(i.a)>>)
        ELSE KeepOut(H, 0, data, <<Rd(i.a, data)>>)

----------------------------------------------------------------------------
(* The four read operations *)

\* the status word the device shows: math overflow is bit 2, conversion
\* ready is bit 3
StatusWord(ovf, cvrf) == ovf * Pow2(2) + cvrf * Pow2(3)

\* the device's answer to the k-th status re-read of a poll: the conversion
\* ready bit shows from the i.readyAt-th re-read on
PollStatus(i, k) == StatusWord(0, IF k >= i.readyAt THEN 1 ELSE 0)

\* faulty variant: for (i = 0; i <= timeout; i++), and timeout is not counted
\* down
RECURSIVE PollLoop_one_more(_, _, _, _)
PollLoop_one_more(n, timeout, i, cs) ==
    IF n <= timeout
    THEN IF i.pollFail = n + 1
         THEN [res |-> 1, timeout |-> timeout,
               calls |-> cs \o <<RdFail(INA226_REG_MASK)>>]
         ELSE LET prev == PollStatus(i, n + 1)
              IN  IF Bit(prev, 3) # 0
                  THEN [res |-> 0, timeout |-> timeout,
                        calls |-> cs \o <<Rd(INA226_REG_MASK, prev)>>]
                  ELSE PollLoop_one_more(n + 1, timeout, i,
                                         cs \o <<Rd(INA226_REG_MASK, prev), Delay(1)>>)
    ELSE [res |-> 0, timeout |-> timeout, calls |-> cs]

\* for (i = 0; i < timeout; i++) { read mask; if ready break; delay; timeout--; }
\* i.pollFail numbers the status re-read that fails (0 none)
RECURSIVE PollLoop(_, _, _, _)
PollLoop(n, timeout, i, cs) ==
    IF n < timeout
    THEN IF i.pollFail = n + 1
         THEN [res |-> 1, timeout |-> timeout,
               calls |-> cs \o <<RdFail(INA226_REG_MASK)>>]
         ELSE LET prev == PollStatus(i, n + 1)
              IN  IF Bit(prev, 3) # 0
                  THEN [res |-> 0, timeout |-> timeout,
                        calls |-> cs \o <<Rd(INA226_REG_MASK, prev)>>]
                  ELSE PollLoop(n + 1, timeout - 1, i,
                                cs \o <<Rd(INA226_REG_MASK, prev), Delay(1)>>)
    ELSE [res |-> 0, timeout |-> timeout, calls |-> cs]

\* if (timeout == 0) -> read timeout
PollTimedOut(timeout) == timeout = 0

\* faulty variant: math overflow is tested only when no trigger is pending
ReadMeasurement_overflow_untriggered(H, i, reg) ==
    LET st0 == StatusWord(i.ovf, i.cvrf)
        c1 == <<Rd(INA226_REG_MASK, st0)>>
        Measure(cs, t) ==
            IF i.fail = 2
            THEN Res(1, -1, cs \o <<RdFail(reg)>>, H.inited, t, H.conf)
            ELSE Res(0, i.raw, cs \o <<Rd(reg, i.raw)>>, H.inited, t, H.conf)
        p == PollLoop(0, INA226_READ_TIMEOUT, i, <<>>)
    IN  IF ~i.h THEN Keep(H, 2, <<>>)
        ELSE IF NotInited(H.inited) THEN Keep(H, 3, <<>>)
        ELSE IF i.fail = 1 THEN Keep(H, 1, <<RdFail(INA226_REG_MASK)>>)
        ELSE IF H.trigger # 0
            THEN IF Bit(st0, 3) = 0
                 THEN IF p.res # 0 THEN Keep(H, 1, c1 \o p.calls)
                      ELSE IF PollTimedOut(p.timeout) THEN Keep(H, 5, c1 \o p.calls)
                      ELSE Measure(c1 \o p.calls, 0)
                 ELSE Measure(c1, 0)
        ELSE IF Bit(st0, 2) # 0 THEN Keep(H, 4, c1)
        ELSE Measure(c1, H.trigger)

\* faulty variant: trigger is cleared only after a poll
ReadMeasurement_ready_keeps_trigger(H, i, reg) ==
    LET st0 == StatusWord(i.ovf, i.cvrf)
        c1 == <<Rd(INA226_REG_MASK, st0)>>
        Measure(cs, t) ==
            IF i.fail = 2
            THEN Res(1, -1, cs \o <<RdFail(reg)>>, H.inited, t, H.conf)
            ELSE Res(0, i.raw, cs \o <<Rd(reg, i.raw)>>, H.inited, t, H.conf)
        p == PollLoop(0, INA226_READ_TIMEOUT, i, <<>>)
    IN  IF ~i.h THEN Keep(H, 2, <<>>)
        ELSE IF NotInited(H.inited) THEN Keep(H, 3, <<>>)
        ELSE IF i.fail = 1 THEN Keep(H, 1, <<RdFail(INA226_REG_MASK)>>)
        ELSE IF Bit(st0, 2) # 0 THEN Keep(H, 4, c1)
        ELSE IF H.trigger # 0
            THEN IF Bit(st0, 3) = 0
                 THEN IF p.res # 0 THEN Keep(H, 1, c1 \o p.calls)
                      ELSE IF PollTimedOut(p.timeout) THEN Keep(H, 5, c1 \o p.calls)
                      ELSE Measure(c1 \o p.calls, 0)
                 ELSE Measure(c1, H.trigger)
        ELSE Measure(c1, H.trigger)

\* faulty variant: a failed status re-read clears trigger
ReadMeasurement_poll_failure_clears(H, i, reg) ==
    LET st0 == StatusWord(i.ovf, i.cvrf)
        c1 == <<Rd(INA226_REG_MASK, st0)>>
        Measure(cs, t) ==
            IF i.fail = 2
            THEN Res(1, -1, cs \o <<RdFail(reg)>>, H.inited, t, H.conf)
            ELSE Res(0, i.raw, cs \o <<Rd(reg, i.raw)>>, H.inited, t, H.conf)
        p == PollLoop(0, INA226_READ_TIMEOUT, i, <<>>)
    IN  IF ~i.h THEN Keep(H, 2, <<>>)
        ELSE IF NotInited(H.inited) THEN Keep(H, 3, <<>>)
        ELSE IF i.fail = 1 THEN Keep(H, 1, <<RdFail(INA226_REG_MASK)>>)
        ELSE IF Bit(st0, 2) # 0 THEN Keep(H, 4, c1)
        ELSE IF H.trigger # 0
            THEN IF Bit(st0, 3) = 0
                 THEN IF p.res # 0
                      THEN Res(1, -1, c1 \o p.calls, H.inited, 0, H.conf)
                      ELSE IF PollTimedOut(p.timeout) THEN Keep(H, 5, c1 \o p.calls)
                      ELSE Measure(c1 \o p.calls, 0)
                 ELSE Measure(c1, 0)
        ELSE Measure(c1, H.trigger)

\* the common body of ina226_read_shunt_voltage, ina226_read_bus_voltage,
\* ina226_read_current and ina226_read_power, reading register reg
\* i.fail: 1 the first status read, 2 the read of the measurement register
ReadMeasurement(H, i, reg) ==
    LET st0 == StatusWord(i.ovf, i.cvrf)
        c1 == <<Rd(INA226_REG_MASK, st0)>>
        Measure(cs, t) ==
            IF i.fail = 2
            THEN Res(1, -1, cs \o <<RdFail(reg)>>, H.inited, t, H.conf)
            ELSE Res(0, i.raw, cs \o <<Rd(reg, i.raw)>>, H.inited, t, H.conf)
        p == PollLoop(0, INA226_READ_TIMEOUT, i, <<>>)
    IN  IF ~i.h THEN Keep(H, 2, <<>>)
        ELSE IF NotInited(H.inited) THEN Keep(H, 3, <<>>)
        ELSE IF i.fail = 1 THEN Keep(H, 1, <<RdFail(INA226_REG_MASK)>>)
        ELSE IF Bit(st0, 2) # 0 THEN Keep(H, 4, c1)
        ELSE IF H.trigger # 0
            THEN IF Bit(st0, 3) = 0
                 THEN IF p.res # 0 THEN Keep(H, 1, c1 \o p.calls)
                      ELSE IF PollTimedOut(p.timeout) THEN Keep(H, 5, c1 \o p.calls)
                      ELSE Measure(c1 \o p.calls, 0)
                 ELSE Measure(c1, 0)
        ELSE Measure(c1, H.trigger)

\* units of a voltage per register count: a shunt voltage is in units of
\* 1/2000 mV and a bus voltage in units of 1/4 mV
UnitsPerCount == 5

\* the power register counts 25 current_lsb
PowerLsbFactor == 25

\* union { uint16_t u; int16_t s; }: the register value read as int16_t
Signed16(u) == IF u >= Pow2(15) THEN u - Pow2(16) ELSE u

\* a successful read stores the raw value and the converted value
Stored(R, raw, val) ==
    IF R.ret = 0 THEN [R EXCEPT !.out = raw] @@ [converted |-> <<val>>] ELSE R

\* *raw = u.s; *mV = (float)(*raw) / 400.0f, in 1/5 of a register count
ina226_read_shunt_voltage(H, i) ==
    LET R == ReadMeasurement(H, i, INA226_REG_SHUNT_VOLTAGE)
    IN  Stored(R, Signed16(R.out), Signed16(R.out) * UnitsPerCount)

\* *mV = (float)(*raw) * 1.25f, in 1/5 of a register count
ina226_read_bus_voltage(H, i) ==
    LET R == ReadMeasurement(H, i, INA226_REG_BUS_VOLTAGE)
    IN  Stored(R, R.out, R.out * UnitsPerCount)

\* *raw = u.s; *mA = (float)((double)(*raw) * handle->current_lsb * 1000),
\* as the number of current_lsb
ina226_read_current(H, i) ==
    LET R == ReadMeasurement(H, i, INA226_REG_CURRENT)
    IN  Stored(R, Signed16(R.out), Signed16(R.out))

\* *mW = (float)((double)(*raw) * handle->current_lsb * 25.0 * 1000.0), as the
\* number of current_lsb
ina226_read_power(H, i) ==
    LET R == ReadMeasurement(H, i, INA226_REG_POWER)
    IN  Stored(R, R.out, R.out * PowerLsbFactor)

----------------------------------------------------------------------------
(* Inputs of the operations *)

\* a call with a NULL handle
NullInp == [NoInp EXCEPT !.h = FALSE]

\* identities the manufacturer register may report
Ids == {MANUFACTURER_ID, 73, 65535}

\* values written to the averaging and conversion time fields: those the
\* monitor application sets (INA226_AVG_16, INA226_CONVERSION_TIME_1P1_MS)
AvgValues == {2}
TimeValues == {4}

\* registers and data of raw register writes: the configuration register,
\* and the die identity register, which is read-only on the device
RawRegs == {INA226_REG_CONF, INA226_REG_DIE}
RawData == {SetField3(ConfResetValue, 0, 3), ConfResetValue, SetBit(ConfResetValue, 15)}

\* contents of a measurement register
RawValues == {100, 40000}

\* resistances (nano-ohm) and addresses the caller sets
Resistances == {4000000}
Addresses == {128}

\* an operation of at most n transport calls, with one argument from A:
\* any one of the calls may fail
RmwInp(A, n) ==
    {NullInp} \cup {[NoInp EXCEPT !.a = a, !.fail = f] : a \in A, f \in 0 .. n}

InitInp ==
    {NullInp} \cup
    {[NoInp EXCEPT !.fail = f, !.id = id, !.resetOk = ro, !.closeOk = co] :
        f \in 0 .. 5, id \in Ids \cup {0}, ro \in BOOLEAN, co \in BOOLEAN}

\* in a poll the device shows conversion ready from the readyAt-th status
\* re-read on, or never (readyAt = budget + 1), or one re-read fails;
\* readyAt = 0 when the call does not poll
PollScripts ==
    {[readyAt |-> ra, pollFail |-> 0] : ra \in 0 .. INA226_READ_TIMEOUT + 1} \cup
    {[readyAt |-> INA226_READ_TIMEOUT + 1, pollFail |-> pf] :
        pf \in 1 .. INA226_READ_TIMEOUT}

ReadInp ==
    {NullInp} \cup
    {[NoInp EXCEPT !.fail = f, !.ovf = o, !.cvrf = c, !.readyAt = s.readyAt,
                   !.pollFail = s.pollFail, !.raw = w] :
        f \in 0 .. 2, o \in 0 .. 1, c \in 0 .. 1, s \in PollScripts,
        w \in RawValues \cup {0}}

\* The inputs an operation did not consume are at their defaults, so that
\* one call is not counted once per value of an answer nobody asked for.
Consumed(i, R) ==
    LET n == Len(R.calls)
        failed == \E k \in 1 .. n : ~R.calls[k].ok /\ R.calls[k].call # "close"
        nstatus == Cardinality({k \in 1 .. n :
                       R.calls[k].call = "read" /\ R.calls[k].reg = INA226_REG_MASK})
        reset == \E k \in 1 .. n :
                     /\ R.calls[k].call = "read" /\ R.calls[k].ok
                     /\ R.calls[k].reg = INA226_REG_CONF
                     /\ Bit(R.calls[k].data, 15) = 1
        closes == \E k \in 1 .. n : R.calls[k].call = "close"
        status == \E k \in 1 .. n :
                     /\ R.calls[k].call = "read" /\ R.calls[k].ok
                     /\ R.calls[k].reg = INA226_REG_MASK
        ident == \E k \in 1 .. n :
                     /\ R.calls[k].call = "read" /\ R.calls[k].ok
                     /\ R.calls[k].reg = INA226_REG_MANUFACTURER
    IN  /\ ~i.h => i = NullInp
        /\ (i.fail # 0 \/ i.pollFail # 0) <=> failed
        /\ i.fail = 0 \/ i.pollFail = 0
        /\ ~reset => i.resetOk
        /\ ~closes => i.closeOk
        /\ ~status => i.ovf = 0 /\ i.cvrf = 0 /\ i.aff = 0
        /\ ident <=> (i.id # 0)
        /\ (nstatus >= 2) <=> (i.readyAt # 0)
        /\ i.pollFail # 0 => i.readyAt = INA226_READ_TIMEOUT + 1
        /\ i.raw # 0 => \E k \in 1 .. n :
               R.calls[k].call = "read" /\ R.calls[k].ok /\ R.calls[k].data = i.raw

----------------------------------------------------------------------------
(* Actions: one per driver operation *)

Do(name, i, R) ==
    /\ op = "none"
    /\ Consumed(i, R)
    /\ op' = name
    /\ inp' = i
    /\ pre' = Handle
    /\ ret' = R.ret
    /\ out' = R.out
    /\ converted' = IF "converted" \in DOMAIN R THEN R.converted ELSE <<>>
    /\ calls' = R.calls
    /\ inited' = R.inited
    /\ trigger' = R.trigger
    /\ conf' = R.conf
    /\ calibration' = DevWritten(INA226_REG_CALIBRATION, calibration, R.calls)
    /\ UNCHANGED <<linked, r, iic_addr>>
    /\ UNCHANGED <<current_lsb, mask, alert_limit, last, threads, mon>>

init == \E i \in InitInp : Do("init", i, ina226_init(Handle, i))

deinit ==
    \E i \in RmwInp({0}, 2), co \in BOOLEAN :
        Do("deinit", IF i.h THEN [i EXCEPT !.closeOk = co] ELSE i,
           ina226_deinit(Handle, IF i.h THEN [i EXCEPT !.closeOk = co] ELSE i))

soft_reset == \E i \in RmwInp({0}, 2) : Do("soft_reset", i, ina226_soft_reset(Handle, i))

set_average_mode ==
    \E i \in RmwInp(AvgValues, 2) :
        Do("set_average_mode", i, ina226_set_average_mode(Handle, i))

get_average_mode ==
    \E i \in RmwInp({0}, 1) :
        Do("get_average_mode", i, ina226_get_average_mode(Handle, i))

set_bus_voltage_conversion_time ==
    \E i \in RmwInp(TimeValues, 2) :
        Do("set_bus_voltage_conversion_time", i,
           ina226_set_bus_voltage_conversion_time(Handle, i))

get_bus_voltage_conversion_time ==
    \E i \in RmwInp({0}, 1) :
        Do("get_bus_voltage_conversion_time", i,
           ina226_get_bus_voltage_conversion_time(Handle, i))

set_shunt_voltage_conversion_time ==
    \E i \in RmwInp(TimeValues, 2) :
        Do("set_shunt_voltage_conversion_time", i,
           ina226_set_shunt_voltage_conversion_time(Handle, i))

get_shunt_voltage_conversion_time ==
    \E i \in RmwInp({0}, 1) :
        Do("get_shunt_voltage_conversion_time", i,
           ina226_get_shunt_voltage_conversion_time(Handle, i))

set_mode == \E i \in RmwInp(Modes, 2) : Do("set_mode", i, ina226_set_mode(Handle, i))

get_mode == \E i \in RmwInp({0}, 1) : Do("get_mode", i, ina226_get_mode(Handle, i))

set_reg ==
    \E i \in RmwInp(RawRegs, 1), d \in RawData :
        Do("set_reg", IF i.h THEN [i EXCEPT !.b = d] ELSE i,
           ina226_set_reg(Handle, IF i.h THEN [i EXCEPT !.b = d] ELSE i))

get_reg ==
    \E i \in RmwInp(RawRegs, 1), w \in RawValues :
        Do("get_reg", IF i.h THEN [i EXCEPT !.raw = w] ELSE i,
           ina226_get_reg(Handle, IF i.h THEN [i EXCEPT !.raw = w] ELSE i))

read_shunt_voltage ==
    \E i \in ReadInp : Do("read_shunt_voltage", i, ina226_read_shunt_voltage(Handle, i))

read_bus_voltage ==
    \E i \in ReadInp : Do("read_bus_voltage", i, ina226_read_bus_voltage(Handle, i))

read_current ==
    \E i \in ReadInp : Do("read_current", i, ina226_read_current(Handle, i))

read_power ==
    \E i \in ReadInp : Do("read_power", i, ina226_read_power(Handle, i))

----------------------------------------------------------------------------
(* Handle-level setters and getters, and the linking of capabilities *)

\* handle->r = resistance
set_resistance ==
    \E h \in BOOLEAN, v \in Resistances :
        /\ r' = IF h THEN v ELSE r
        /\ op = "none"
        /\ op' = "set_resistance"
        /\ inp' = IF h THEN [NoInp EXCEPT !.a = v] ELSE NullInp
        /\ pre' = Handle
        /\ ret' = IF h THEN 0 ELSE 2
        /\ out' = -1
        /\ converted' = <<>>
        /\ calls' = <<>>
        /\ UNCHANGED <<inited, trigger, linked, iic_addr, conf>>
        /\ UNCHANGED ext

\* *resistance = handle->r
get_resistance ==
    \E h \in BOOLEAN :
        /\ op = "none"
        /\ op' = "get_resistance"
        /\ inp' = IF h THEN NoInp ELSE NullInp
        /\ pre' = Handle
        /\ ret' = IF h THEN 0 ELSE 2
        /\ out' = IF h THEN r ELSE -1
        /\ converted' = <<>>
        /\ calls' = <<>>
        /\ UNCHANGED <<inited, trigger, linked, r, iic_addr, conf>>
        /\ UNCHANGED ext

\* handle->iic_addr = addr_pin
set_addr_pin ==
    \E h \in BOOLEAN, v \in Addresses :
        /\ iic_addr' = IF h THEN v ELSE iic_addr
        /\ op = "none"
        /\ op' = "set_addr_pin"
        /\ inp' = IF h THEN [NoInp EXCEPT !.a = v] ELSE NullInp
        /\ pre' = Handle
        /\ ret' = IF h THEN 0 ELSE 2
        /\ out' = -1
        /\ converted' = <<>>
        /\ calls' = <<>>
        /\ UNCHANGED <<inited, trigger, linked, r, conf>>
        /\ UNCHANGED ext

\* *addr_pin = handle->iic_addr
get_addr_pin ==
    \E h \in BOOLEAN :
        /\ op = "none"
        /\ op' = "get_addr_pin"
        /\ inp' = IF h THEN NoInp ELSE NullInp
        /\ pre' = Handle
        /\ ret' = IF h THEN 0 ELSE 2
        /\ out' = IF h THEN iic_addr ELSE -1
        /\ converted' = <<>>
        /\ calls' = <<>>
        /\ UNCHANGED <<inited, trigger, linked, r, iic_addr, conf>>
        /\ UNCHANGED ext

\* DRIVER_INA226_LINK_*: the caller links, or leaves out, a capability
\* before the handle is initialized
link ==
    \E c \in Caps, on \in BOOLEAN :
        /\ op = "none"
        /\ inited = 0
        /\ linked' = IF on THEN linked \cup {c} ELSE linked \ {c}
        /\ linked' # linked
        /\ Cardinality(Caps \ linked') <= MaxMissing
        /\ op' = "link"
        /\ inp' = NoInp
        /\ pre' = Handle
        /\ ret' = 0
        /\ out' = -1
        /\ converted' = <<>>
        /\ calls' = <<>>
        /\ UNCHANGED <<inited, trigger, r, iic_addr, conf>>
        /\ UNCHANGED ext

\* The caller is single-threaded: it takes the result of a call before it
\* issues the next one (res = ina226_...(h); if (res != 0) return res;)
collect ==
    /\ op # "none"
    /\ op' = "none"
    /\ inp' = NoInp
    /\ pre' = Handle
    /\ ret' = 0
    /\ out' = -1
    /\ converted' = <<>>
    /\ calls' = <<>>
    /\ UNCHANGED <<inited, trigger, linked, r, iic_addr, conf>>
    /\ UNCHANGED ext

----------------------------------------------------------------------------
(* The specification *)

\* the handle is zero-initialized storage with its capabilities linked; the
\* device is at its power-on configuration, the transport closed
Init ==
    /\ inited = 0
    /\ trigger = 0
    /\ linked = Caps
    /\ r = 0
    /\ iic_addr = 0
    /\ current_lsb = ZeroLsb
    /\ conf = ConfResetValue
    /\ mask = 0
    /\ calibration = 0
    /\ alert_limit = 0
    /\ op = "none"
    /\ inp = NoInp
    /\ ret = 0
    /\ out = -1
    /\ converted = <<>>
    /\ calls = <<>>
    /\ pre = [inited |-> 0, trigger |-> 0, conf |-> ConfResetValue,
              linked |-> Caps, r |-> 0, iic_addr |-> 0,
              current_lsb |-> ZeroLsb, mask |-> 0, calibration |-> 0,
              alert_limit |-> 0]
    /\ last = NoLast
    /\ threads = NoThreads
    /\ mon = NoMon

Next ==
    \/ init
    \/ deinit
    \/ soft_reset
    \/ set_average_mode
    \/ get_average_mode
    \/ set_bus_voltage_conversion_time
    \/ get_bus_voltage_conversion_time
    \/ set_shunt_voltage_conversion_time
    \/ get_shunt_voltage_conversion_time
    \/ set_mode
    \/ get_mode
    \/ set_reg
    \/ get_reg
    \/ read_shunt_voltage
    \/ read_bus_voltage
    \/ read_current
    \/ read_power
    \/ set_resistance
    \/ get_resistance
    \/ set_addr_pin
    \/ get_addr_pin
    \/ link
    \/ collect

Spec == Init /\ [][Next]_vars

----------------------------------------------------------------------------
(* Calls in sequence: the caller takes the result of one call and makes a  *)
(* second one.  The specifications below start from a handle and a device  *)
(* in one of a set of contents and run one call, or two calls in sequence. *)

\* res = ina226_set_...(h, v); ...; res = ina226_get_...(h, &v);
take ==
    /\ op # "none"
    /\ last = NoLast
    /\ last' = [op |-> op, inp |-> inp, ret |-> ret, out |-> out,
                converted |-> converted]
    /\ op' = "none"
    /\ inp' = NoInp
    /\ pre' = Handle
    /\ ret' = 0
    /\ out' = -1
    /\ converted' = <<>>
    /\ calls' = <<>>
    /\ UNCHANGED <<inited, trigger, linked, r, iic_addr, current_lsb, conf, mask,
                   calibration, alert_limit, threads, mon>>

\* the first call of the sequence
FirstCall == last = NoLast

\* the handle after a successful ina226_init with the shunt resistance the
\* monitor sets, or (ini = 0) before it; cf and mk are the contents of the
\* device's configuration and mask registers
InitWith(ini, t, cf, mk, cal, res, lsb, thr) ==
    /\ inited = ini
    /\ trigger = t
    /\ linked = Caps
    /\ r = res
    /\ iic_addr = 0
    /\ current_lsb = lsb
    /\ conf = cf
    /\ mask = mk
    /\ calibration = cal
    /\ alert_limit = 0
    /\ op = "none"
    /\ inp = NoInp
    /\ ret = 0
    /\ out = -1
    /\ converted = <<>>
    /\ calls = <<>>
    /\ pre = [inited |-> ini, trigger |-> t, conf |-> cf, linked |-> Caps,
              r |-> res, iic_addr |-> 0, current_lsb |-> lsb, mask |-> mk,
              calibration |-> cal, alert_limit |-> 0]
    /\ last = NoLast
    /\ threads = thr
    /\ mon = NoMon

\* with the calibration register at its power-on value and no call in
\* progress
InitAt(ini, t, cf, mk, res, lsb) ==
    InitWith(ini, t, cf, mk, 0, res, lsb, NoThreads)

----------------------------------------------------------------------------
(* The configuration codec on any register content *)

\* the values of a 3-bit field: ina226_avg_t, ina226_conversion_time_t
FieldValues == 0 .. 7

\* contents of the configuration register before the call (the reset bit
\* reads 0): all zero, all one, the power-on value, alternating bits
ConfSamples == {0, 32767, ConfResetValue, 10922, 21845, 3591}

any_set_average_mode ==
    /\ FirstCall
    /\ \E i \in RmwInp(FieldValues, 2) :
           Do("set_average_mode", i, ina226_set_average_mode(Handle, i))

any_set_bus_voltage_conversion_time ==
    /\ FirstCall
    /\ \E i \in RmwInp(FieldValues, 2) :
           Do("set_bus_voltage_conversion_time", i,
              ina226_set_bus_voltage_conversion_time(Handle, i))

any_set_shunt_voltage_conversion_time ==
    /\ FirstCall
    /\ \E i \in RmwInp(FieldValues, 2) :
           Do("set_shunt_voltage_conversion_time", i,
              ina226_set_shunt_voltage_conversion_time(Handle, i))

any_set_mode == FirstCall /\ set_mode

InitCodec ==
    \/ \E cf \in ConfSamples, t \in 0 .. 1 :
           InitAt(1, t, cf, 0, 4000000, ZeroLsb)
    \/ InitAt(0, 0, ConfResetValue, 0, 4000000, ZeroLsb)

NextCodec ==
    \/ any_set_average_mode
    \/ any_set_bus_voltage_conversion_time
    \/ any_set_shunt_voltage_conversion_time
    \/ any_set_mode
    \/ get_average_mode
    \/ get_bus_voltage_conversion_time
    \/ get_shunt_voltage_conversion_time
    \/ get_mode
    \/ take

SpecCodec == InitCodec /\ [][NextCodec]_vars

----------------------------------------------------------------------------
(* The mask/enable register: alert enables, pin settings, irq handler *)

INA226_STATUS_SHUNT_VOLTAGE_OVER_VOLTAGE == 15
INA226_STATUS_SHUNT_VOLTAGE_UNDER_VOLTAGE == 14
INA226_STATUS_BUS_VOLTAGE_OVER_VOLTAGE == 13
INA226_STATUS_BUS_VOLTAGE_UNDER_VOLTAGE == 12
INA226_STATUS_POWER_OVER_LIMIT == 11

\* ina226_mask_t
MaskBits == 11 .. 15

\* the bits of the register the device stores: the five alert enables, the
\* conversion ready enable (10), alert polarity (1) and alert latch (0)
StoredMaskBits == MaskBits \cup {10, 1, 0}

RECURSIVE SumBits(_, _)
SumBits(v, B) ==
    IF B = {} THEN 0
    ELSE LET n == CHOOSE x \in B : TRUE
         IN  Bit(v, n) * Pow2(n) + SumBits(v, B \ {n})

\* a write of the register: the flag bits are the device's own
DevWriteMask(data) == SumBits(data, StoredMaskBits)

\* a read of the register: the stored bits, and the flags the device shows:
\* alert function (bit 4), conversion ready (3), math overflow (2)
DevReadMask(mk, i) == mk + i.aff * Pow2(4) + StatusWord(i.ovf, i.cvrf)

\* result of an operation on the mask register: return code, output, calls,
\* and the stored bits of the register afterwards
ResMask(rc, o, cs, mk) == [ret |-> rc, out |-> o, calls |-> cs, mask |-> mk]

\* faulty variant: the setter only ORs the new bit in, without clearing it
MaskSetBit_or_only(H, i, n) ==
    LET rd == DevReadMask(H.mask, i)
        prev == IF i.b = 1 THEN SetBit(rd, n) ELSE rd
        c1 == <<Rd(INA226_REG_MASK, rd)>>
    IN  IF ~i.h THEN ResMask(2, -1, <<>>, H.mask)
        ELSE IF NotInited(H.inited) THEN ResMask(3, -1, <<>>, H.mask)
        ELSE IF i.fail = 1 THEN ResMask(1, -1, <<RdFail(INA226_REG_MASK)>>, H.mask)
        ELSE IF i.fail = 2
            THEN ResMask(1, -1, c1 \o <<WrFail(INA226_REG_MASK, prev)>>, H.mask)
        ELSE ResMask(0, -1, c1 \o <<Wr(INA226_REG_MASK, prev)>>, DevWriteMask(prev))

\* faulty variant: a failed read is reported only after the bit was written
\* over an empty register
MaskSetBit_writes_after_failed_read(H, i, n) ==
    LET rd == DevReadMask(H.mask, i)
        prev == ClearBit(rd, n) + i.b * Pow2(n)
        blind == i.b * Pow2(n)
        c1 == <<Rd(INA226_REG_MASK, rd)>>
    IN  IF ~i.h THEN ResMask(2, -1, <<>>, H.mask)
        ELSE IF NotInited(H.inited) THEN ResMask(3, -1, <<>>, H.mask)
        ELSE IF i.fail = 1
            THEN ResMask(1, -1, <<RdFail(INA226_REG_MASK), Wr(INA226_REG_MASK, blind)>>,
                         DevWriteMask(blind))
        ELSE IF i.fail = 2
            THEN ResMask(1, -1, c1 \o <<WrFail(INA226_REG_MASK, prev)>>, H.mask)
        ELSE ResMask(0, -1, c1 \o <<Wr(INA226_REG_MASK, prev)>>, DevWriteMask(prev))

\* prev &= ~(1 << n); prev |= (enable << n): read-modify-write of bit n with
\* the value i.b; i.fail: 1 the read of the mask register, 2 its write
MaskSetBit(H, i, n) ==
    LET rd == DevReadMask(H.mask, i)
        prev == ClearBit(rd, n) + i.b * Pow2(n)
        c1 == <<Rd(INA226_REG_MASK, rd)>>
    IN  IF ~i.h THEN ResMask(2, -1, <<>>, H.mask)
        ELSE IF NotInited(H.inited) THEN ResMask(3, -1, <<>>, H.mask)
        ELSE IF i.fail = 1 THEN ResMask(1, -1, <<RdFail(INA226_REG_MASK)>>, H.mask)
        ELSE IF i.fail = 2
            THEN ResMask(1, -1, c1 \o <<WrFail(INA226_REG_MASK, prev)>>, H.mask)
        ELSE ResMask(0, -1, c1 \o <<Wr(INA226_REG_MASK, prev)>>, DevWriteMask(prev))

\* (prev >> n) & 0x01; i.fail: 1 the read of the mask register
MaskGetBit(H, i, n) ==
    LET rd == DevReadMask(H.mask, i)
    IN  IF ~i.h THEN ResMask(2, -1, <<>>, H.mask)
        ELSE IF NotInited(H.inited) THEN ResMask(3, -1, <<>>, H.mask)
        ELSE IF i.fail = 1 THEN ResMask(1, -1, <<RdFail(INA226_REG_MASK)>>, H.mask)
        ELSE ResMask(0, Bit(rd, n), <<Rd(INA226_REG_MASK, rd)>>, H.mask)

\* i.a the alert condition (ina226_mask_t), i.b the enable
ina226_set_mask(H, i) == MaskSetBit(H, i, i.a)

ina226_get_mask(H, i) == MaskGetBit(H, i, i.a)

ina226_set_conversion_ready_alert_pin(H, i) == MaskSetBit(H, i, 10)

ina226_get_conversion_ready_alert_pin(H, i) == MaskGetBit(H, i, 10)

ina226_set_alert_polarity_pin(H, i) == MaskSetBit(H, i, 1)

ina226_get_alert_polarity_pin(H, i) == MaskGetBit(H, i, 1)

ina226_set_alert_latch(H, i) == MaskSetBit(H, i, 0)

ina226_get_alert_latch(H, i) == MaskGetBit(H, i, 0)

\* faulty variant: the alert function flag is not tested
AlertFunction_unchecked(prev) == TRUE

\* if ((prev & (1 << 4)) != 0)
AlertFunction(prev) == Bit(prev, 4) # 0

\* faulty variant: the chain tests the conditions from power over limit upwards
AlertCode_lowest_first(prev) ==
    IF Bit(prev, 11) # 0 THEN INA226_STATUS_POWER_OVER_LIMIT
    ELSE IF Bit(prev, 12) # 0 THEN INA226_STATUS_BUS_VOLTAGE_UNDER_VOLTAGE
    ELSE IF Bit(prev, 13) # 0 THEN INA226_STATUS_BUS_VOLTAGE_OVER_VOLTAGE
    ELSE IF Bit(prev, 14) # 0 THEN INA226_STATUS_SHUNT_VOLTAGE_UNDER_VOLTAGE
    ELSE IF Bit(prev, 15) # 0 THEN INA226_STATUS_SHUNT_VOLTAGE_OVER_VOLTAGE
    ELSE 0

\* the if / else if chain over the bits 15..11: the code passed to the
\* callback, 0 when the chain ends in "do nothing"
AlertCode(prev) ==
    IF Bit(prev, 15) # 0 THEN INA226_STATUS_SHUNT_VOLTAGE_OVER_VOLTAGE
    ELSE IF Bit(prev, 14) # 0 THEN INA226_STATUS_SHUNT_VOLTAGE_UNDER_VOLTAGE
    ELSE IF Bit(prev, 13) # 0 THEN INA226_STATUS_BUS_VOLTAGE_OVER_VOLTAGE
    ELSE IF Bit(prev, 12) # 0 THEN INA226_STATUS_BUS_VOLTAGE_UNDER_VOLTAGE
    ELSE IF Bit(prev, 11) # 0 THEN INA226_STATUS_POWER_OVER_LIMIT
    ELSE 0

\* i.fail: 1 the read of the mask register
ina226_irq_handler(H, i) ==
    LET prev == DevReadMask(H.mask, i)
        c1 == <<Rd(INA226_REG_MASK, prev)>>
    IN  IF ~i.h THEN ResMask(2, -1, <<>>, H.mask)
        ELSE IF NotInited(H.inited) THEN ResMask(3, -1, <<>>, H.mask)
        ELSE IF i.fail = 1 THEN ResMask(1, -1, <<RdFail(INA226_REG_MASK)>>, H.mask)
        ELSE IF AlertFunction(prev) /\ AlertCode(prev) # 0
                /\ "receive_callback" \in H.linked
            THEN ResMask(0, -1, c1 \o <<Callback(AlertCode(prev))>>, H.mask)
        ELSE ResMask(0, -1, c1, H.mask)

\* an operation on the mask register as a step
DoMask(name, i, R) ==
    /\ op = "none"
    /\ Consumed(i, R)
    /\ op' = name
    /\ inp' = i
    /\ pre' = Handle
    /\ ret' = R.ret
    /\ out' = R.out
    /\ converted' = <<>>
    /\ calls' = R.calls
    /\ mask' = R.mask
    /\ UNCHANGED <<inited, trigger, linked, r, iic_addr, current_lsb, conf, last,
                   calibration, alert_limit, threads, mon>>

\* the flags the device shows in a read of the register (i.fail 0 or 2), or
\* none when the read fails
MaskInp(A, B, n) ==
    {NullInp} \cup
    {[NoInp EXCEPT !.a = a, !.b = b, !.fail = f, !.aff = g, !.ovf = g, !.cvrf = g] :
        a \in A, b \in B, f \in 0 .. n, g \in 0 .. 1}

IrqInp ==
    {NullInp} \cup
    {[NoInp EXCEPT !.fail = f, !.aff = g, !.cvrf = c] :
        f \in 0 .. 1, g \in 0 .. 1, c \in 0 .. 1}

set_mask ==
    /\ FirstCall
    /\ \E i \in MaskInp(MaskBits, 0 .. 1, 2) :
           DoMask("set_mask", i, ina226_set_mask(Handle, i))

get_mask ==
    \E i \in MaskInp(MaskBits, {0}, 1) : DoMask("get_mask", i, ina226_get_mask(Handle, i))

set_conversion_ready_alert_pin ==
    /\ FirstCall
    /\ \E i \in MaskInp({0}, 0 .. 1, 2) :
           DoMask("set_conversion_ready_alert_pin", i,
                  ina226_set_conversion_ready_alert_pin(Handle, i))

get_conversion_ready_alert_pin ==
    \E i \in MaskInp({0}, {0}, 1) :
        DoMask("get_conversion_ready_alert_pin", i,
               ina226_get_conversion_ready_alert_pin(Handle, i))

set_alert_polarity_pin ==
    /\ FirstCall
    /\ \E i \in MaskInp({0}, 0 .. 1, 2) :
           DoMask("set_alert_polarity_pin", i,
                  ina226_set_alert_polarity_pin(Handle, i))

get_alert_polarity_pin ==
    \E i \in MaskInp({0}, {0}, 1) :
        DoMask("get_alert_polarity_pin", i, ina226_get_alert_polarity_pin(Handle, i))

set_alert_latch ==
    /\ FirstCall
    /\ \E i \in MaskInp({0}, 0 .. 1, 2) :
           DoMask("set_alert_latch", i, ina226_set_alert_latch(Handle, i))

get_alert_latch ==
    \E i \in MaskInp({0}, {0}, 1) :
        DoMask("get_alert_latch", i, ina226_get_alert_latch(Handle, i))

irq_handler ==
    \E i \in IrqInp : DoMask("irq_handler", i, ina226_irq_handler(Handle, i))

\* every combination of the five alert bits
AlertSubsets == {k * Pow2(11) : k \in 0 .. 31}

\* stored contents of the register before a setter or getter: nothing set,
\* everything set, one alert, the pin settings
MaskSamples == {0, DevWriteMask(65535), Pow2(15), Pow2(13) + Pow2(10), Pow2(11) + 2, 1}

InitMask ==
    \/ \E mk \in MaskSamples : InitAt(1, 0, ConfResetValue, mk, 4000000, ZeroLsb)
    \/ InitAt(0, 0, ConfResetValue, 0, 4000000, ZeroLsb)

NextMask ==
    \/ set_mask
    \/ get_mask
    \/ set_conversion_ready_alert_pin
    \/ get_conversion_ready_alert_pin
    \/ set_alert_polarity_pin
    \/ get_alert_polarity_pin
    \/ set_alert_latch
    \/ get_alert_latch
    \/ take

SpecMask == InitMask /\ [][NextMask]_vars

\* the irq handler on every combination of alert bits, with and without the
\* pin settings
InitIrq ==
    \/ \E mk \in AlertSubsets, pins \in {0, Pow2(10) + 2 + 1} :
           InitAt(1, 0, ConfResetValue, mk + pins, 4000000, ZeroLsb)
    \/ InitAt(0, 0, ConfResetValue, 0, 4000000, ZeroLsb)

NextIrq == irq_handler

SpecIrq == InitIrq /\ [][NextIrq]_vars

----------------------------------------------------------------------------
(* Calibration and the voltage conversions.  Resistances are in nano-ohm;  *)
(* a shunt voltage is in units of 1/2000 mV and a bus voltage in units of  *)
(* 1/4 mV, so that one register count is 5 units in both (1/400 mV and     *)
(* 1.25 mV).  The arithmetic is exact: float rounding is not modelled.     *)

\* (handle->r >= -0.000001f) && (handle->r <= 0.000001f): r is a double and
\* the two bounds are float literals, equal to -/+ 9.99999997475e-07 ohm,
\* that is just inside -/+ 1000 nano-ohm
DegenerateResistance(res) == res > -1000 /\ res < 1000

\* v / handle->r / pow(2.0, 15.0) with v = 0.08192: 2.5e-6 / r amperes, that
\* is 2500 / r with r in nano-ohm, kept as a fraction
CurrentLsb(res) == [num |-> 2500, den |-> res]

\* (uint16_t)(0.00512 / (v / pow(2.0, 15.0))), both scaled by 100000
CalibrationCode == (512 * Pow2(15)) \div 8192

\* result of an operation that touches no register: return code, output,
\* and current_lsb afterwards
ResCal(rc, o, lsb) == [ret |-> rc, out |-> o, calls |-> <<>>, current_lsb |-> lsb]

\* faulty variant: the calibration code is also written to the device
ina226_calculate_calibration_writes(H, i) ==
    IF ~i.h THEN ResCal(2, -1, H.current_lsb)
    ELSE IF NotInited(H.inited) THEN ResCal(3, -1, H.current_lsb)
    ELSE IF DegenerateResistance(H.r) THEN ResCal(4, -1, H.current_lsb)
    ELSE [ResCal(0, CalibrationCode, CurrentLsb(H.r)) EXCEPT
             !.calls = <<Wr(INA226_REG_CALIBRATION, CalibrationCode)>>]

ina226_calculate_calibration(H, i) ==
    IF ~i.h THEN ResCal(2, -1, H.current_lsb)
    ELSE IF NotInited(H.inited) THEN ResCal(3, -1, H.current_lsb)
    ELSE IF DegenerateResistance(H.r) THEN ResCal(4, -1, H.current_lsb)
    ELSE ResCal(0, CalibrationCode, CurrentLsb(H.r))

\* conversion of a real number a / b to an integer: the fraction is dropped
Trunc(a, b) == IF a >= 0 THEN a \div b ELSE -((-a) \div b)

\* (uint16_t) of a real number with integer part t.  Outside 0..65535 the
\* conversion is undefined: the build yields either t modulo 2^16 (the
\* conversion goes through a wider signed integer) or, for a negative t, 0
\* (a saturating unsigned conversion instruction); wrap selects which.
CastU16(t, wrap) ==
    IF t >= 0 /\ t <= 65535 THEN t
    ELSE IF wrap = 1 \/ t > 0 THEN t % 65536
    ELSE 0

\* *reg = (uint16_t)(mV * 400.0f); i.a the voltage, i.b the build's choice
ina226_shunt_voltage_convert_to_register(H, i) ==
    IF ~i.h THEN ResCal(2, -1, H.current_lsb)
    ELSE IF NotInited(H.inited) THEN ResCal(3, -1, H.current_lsb)
    ELSE ResCal(0, CastU16(Trunc(i.a, UnitsPerCount), i.b), H.current_lsb)

\* *mV = (float)(reg) / 400.0f, reg a uint16_t; i.a the register value
ina226_shunt_voltage_convert_to_data(H, i) ==
    IF ~i.h THEN ResCal(2, -1, H.current_lsb)
    ELSE IF NotInited(H.inited) THEN ResCal(3, -1, H.current_lsb)
    ELSE ResCal(0, i.a * UnitsPerCount, H.current_lsb)

\* *reg = (uint16_t)(mV / 1.25f)
ina226_bus_voltage_convert_to_register(H, i) ==
    IF ~i.h THEN ResCal(2, -1, H.current_lsb)
    ELSE IF NotInited(H.inited) THEN ResCal(3, -1, H.current_lsb)
    ELSE ResCal(0, CastU16(Trunc(i.a, UnitsPerCount), i.b), H.current_lsb)

\* *mV = (float)(reg) * 1.25f
ina226_bus_voltage_convert_to_data(H, i) ==
    IF ~i.h THEN ResCal(2, -1, H.current_lsb)
    ELSE IF NotInited(H.inited) THEN ResCal(3, -1, H.current_lsb)
    ELSE ResCal(0, i.a * UnitsPerCount, H.current_lsb)

\* an operation that touches no register as a step
DoCal(name, i, R) ==
    /\ op = "none"
    /\ Consumed(i, R)
    /\ op' = name
    /\ inp' = i
    /\ pre' = Handle
    /\ ret' = R.ret
    /\ out' = R.out
    /\ converted' = <<>>
    /\ calls' = R.calls
    /\ current_lsb' = R.current_lsb
    /\ calibration' = DevWritten(INA226_REG_CALIBRATION, calibration, R.calls)
    /\ UNCHANGED <<inited, trigger, linked, r, iic_addr, conf, mask, last,
                   alert_limit, threads, mon>>

\* resistances the caller may have set: the monitor's 0.004 ohm, zero, and
\* values at and around one micro-ohm, of both signs
CalResistances == {-4000000, -1001, -1000, -999, 0, 1, 999, 1000, 1001, 4000000}

\* shunt voltages from -32768/400 mV to 32767/400 mV, bus voltages from 0 to
\* 65535 * 1.25 mV
ShuntVoltages == {-163840, -163836, -4003, -5, -4, -1, 0, 1, 4, 5, 6, 4003, 163835}
BusVoltages == {0, 1, 4, 5, 6, 48001, 327671, 327675}

\* register values converted on their own
RegValues == {0, 1, 32767, 32768, 65535}

\* the build's choice matters only for a value outside 0..65535
ConvInp(X) ==
    {NullInp} \cup
    {i \in {[NoInp EXCEPT !.a = x, !.b = w] : x \in X, w \in 0 .. 1} :
        i.b = 1 => i.a <= -UnitsPerCount}

\* the register value converted back: the one the conversion before gave,
\* or any
DataInp(from) ==
    IF FirstCall THEN {NullInp} \cup {[NoInp EXCEPT !.a = v] : v \in RegValues}
    ELSE IF last.op = from /\ last.ret = 0 THEN {[NoInp EXCEPT !.a = last.out]}
    ELSE {}

calculate_calibration ==
    /\ FirstCall
    /\ \E h \in BOOLEAN :
           DoCal("calculate_calibration", IF h THEN NoInp ELSE NullInp,
                 ina226_calculate_calibration(Handle, IF h THEN NoInp ELSE NullInp))

shunt_voltage_convert_to_register ==
    /\ FirstCall
    /\ \E i \in ConvInp(ShuntVoltages) :
           DoCal("shunt_voltage_convert_to_register", i,
                 ina226_shunt_voltage_convert_to_register(Handle, i))

shunt_voltage_convert_to_data ==
    \E i \in DataInp("shunt_voltage_convert_to_register") :
        DoCal("shunt_voltage_convert_to_data", i,
              ina226_shunt_voltage_convert_to_data(Handle, i))

bus_voltage_convert_to_register ==
    /\ FirstCall
    /\ \E i \in ConvInp(BusVoltages) :
           DoCal("bus_voltage_convert_to_register", i,
                 ina226_bus_voltage_convert_to_register(Handle, i))

bus_voltage_convert_to_data ==
    \E i \in DataInp("bus_voltage_convert_to_register") :
        DoCal("bus_voltage_convert_to_data", i,
              ina226_bus_voltage_convert_to_data(Handle, i))

InitCal ==
    \/ \E res \in CalResistances, lsb \in {ZeroLsb, CurrentLsb(4000000)} :
           InitAt(1, 0, ConfResetValue, 0, res, lsb)
    \/ InitAt(0, 0, ConfResetValue, 0, 4000000, ZeroLsb)

NextCal ==
    \/ calculate_calibration
    \/ shunt_voltage_convert_to_register
    \/ shunt_voltage_convert_to_data
    \/ bus_voltage_convert_to_register
    \/ bus_voltage_convert_to_data
    \/ take

SpecCal == InitCal /\ [][NextCal]_vars

----------------------------------------------------------------------------
(* Vocabulary of the properties *)

ReadOps == {"read_shunt_voltage", "read_bus_voltage", "read_current", "read_power"}

\* operations that need only a non-NULL handle
HandleOps == {"set_resistance", "get_resistance", "set_addr_pin", "get_addr_pin"}

\* steps of the model that are no guarded driver operation
Unguarded == HandleOps \cup {"none", "link", "init"}

\* the measurement register a read operation reads
MeasurementReg(o) ==
    CASE o = "read_shunt_voltage" -> INA226_REG_SHUNT_VOLTAGE
      [] o = "read_bus_voltage" -> INA226_REG_BUS_VOLTAGE
      [] o = "read_current" -> INA226_REG_CURRENT
      [] OTHER -> INA226_REG_POWER

\* positions in `calls` of the calls of one kind on one register
CallsOn(c, reg) ==
    {k \in 1 .. Len(calls) : calls[k].call = c /\ calls[k].reg = reg}

CallsOf(c) == {k \in 1 .. Len(calls) : calls[k].call = c}

FailedCalls == {k \in 1 .. Len(calls) : ~calls[k].ok}

StatusReads == CallsOn("read", INA226_REG_MASK)

\* a read operation that got past the handle checks with a trigger pending
TriggeredRead == op \in ReadOps /\ inp.h /\ pre.inited = 1 /\ pre.trigger = 1

\* the last status read of the call showed conversion ready
ReadyObserved ==
    /\ StatusReads # {}
    /\ \A k \in StatusReads :
           (\A j \in StatusReads : j <= k) => calls[k].ok /\ Bit(calls[k].data, 3) = 1

\* every status read of the call succeeded and showed neither conversion
\* ready nor math overflow
NeverReady ==
    /\ StatusReads # {}
    /\ \A k \in StatusReads :
           calls[k].ok /\ Bit(calls[k].data, 3) = 0 /\ Bit(calls[k].data, 2) = 0

----------------------------------------------------------------------------
(* C1..C10 *)

\* C1: a read operation called with trigger pending, whose status reads all
\* show conversion ready clear, returns read-timeout (5), does not read its
\* measurement register and leaves trigger pending.
C1_TimeoutWhenNeverReady ==
    (TriggeredRead /\ NeverReady) =>
        /\ ret = 5
        /\ CallsOn("read", MeasurementReg(op)) = {}
        /\ trigger = 1

\* C2: with budget N = INA226_READ_TIMEOUT the poll makes up to N status
\* re-reads: a device that first shows conversion ready on the k-th re-read,
\* 1 <= k <= N, is observed ready by the read, which then reads the
\* measurement; the poll gives up (read-timeout) only after N re-reads.
C2_PollUsesWholeBudget ==
    (TriggeredRead /\ inp.readyAt # 0 /\ inp.pollFail = 0) =>
        /\ inp.readyAt <= INA226_READ_TIMEOUT =>
               /\ Cardinality(StatusReads) = 1 + inp.readyAt
               /\ ReadyObserved
               /\ ret = 0 \/ inp.fail = 2
        /\ inp.readyAt > INA226_READ_TIMEOUT =>
               /\ Cardinality(StatusReads) = 1 + INA226_READ_TIMEOUT
               /\ ret = 5

\* C3: the first successful read after a triggered set_mode polls until
\* conversion ready is observed and then clears trigger; a read that finds
\* trigger clear reads its measurement after a single status read, without
\* re-read or delay, and leaves trigger clear.
C3_FirstReadWaitsLaterReadsDoNot ==
    (op \in ReadOps /\ inp.h /\ pre.inited = 1) =>
        /\ (pre.trigger = 1 /\ ret = 0) => (ReadyObserved /\ trigger = 0)
        /\ pre.trigger = 0 =>
               /\ trigger = 0
               /\ Cardinality(StatusReads) = 1
               /\ CallsOf("delay") = {}

\* C4: trigger is never set while the mode field of the device's
\* configuration register is power-down or a continuous mode.
C4_TriggerOnlyInTriggeredMode ==
    trigger = 1 => GetField3(conf, 0) \notin {0, 5, 6, 7}

\* C5: after a successful ina226_deinit the handle is uninitialized.
C5_DeinitUninitializes == (op = "deinit" /\ ret = 0) => inited # 1

\* C6: ina226_init sets inited and clears trigger only on its fully
\* successful path: capabilities linked, transport opened, identity matched,
\* reset written, settle delay, reset bit re-read clear; a failing init
\* changes neither inited nor trigger.
C6_InitMarksOnlyOnSuccess ==
    op = "init" =>
        /\ ret = 0 =>
               /\ inited = 1 /\ trigger = 0
               /\ pre.linked = Caps
               /\ Len(calls) = 6 /\ FailedCalls = {}
               /\ calls[1].call = "open"
               /\ calls[2] = Rd(INA226_REG_MANUFACTURER, MANUFACTURER_ID)
               /\ calls[3].call = "read" /\ calls[3].reg = INA226_REG_CONF
               /\ calls[4].call = "write" /\ calls[4].reg = INA226_REG_CONF
               /\ Bit(calls[4].data, 15) = 1
               /\ calls[5].call = "delay"
               /\ calls[6].call = "read" /\ calls[6].reg = INA226_REG_CONF
               /\ Bit(calls[6].data, 15) = 0
        /\ ret # 0 => (inited = pre.inited /\ trigger = pre.trigger)

C6_Witness ==
    op = "init" /\ ret = 0 /\ pre.inited = 1 /\ pre.trigger = 1
        /\ inited = 1 /\ trigger = 0

\* C7: when the manufacturer register reads anything but 0x5449, init
\* returns 4, closes the transport, touches no configuration register and
\* does not mark the handle initialized.
C7_IdentityMismatch ==
    (op = "init" /\ \E k \in CallsOn("read", INA226_REG_MANUFACTURER) :
                        calls[k].ok /\ calls[k].data # MANUFACTURER_ID) =>
        /\ ret = 4
        /\ Cardinality(CallsOf("close")) = 1
        /\ calls[Len(calls)].call = "close"
        /\ \A k \in 1 .. Len(calls) :
               calls[k].call \in {"read", "write"} => calls[k].reg # INA226_REG_CONF
        /\ inited = pre.inited

C7_Witness ==
    op = "init" /\ ret = 4 /\ inited = 0 /\ Len(calls) = 3
        /\ calls[2] = Rd(INA226_REG_MANUFACTURER, 73)

C9_TransportFaultUninitializes ==
    (op \in {"init", "deinit"} /\ FailedCalls # {}) => inited # 1

\* C10: in deinit a failed read or write of the configuration register
\* returns 4 without closing the transport and leaves the handle
\* initialized; 1 is returned only when the power-down write succeeded and
\* the close failed.
C10_PowerDownFailureFirst ==
    op = "deinit" =>
        /\ (\E k \in FailedCalls : calls[k].reg = INA226_REG_CONF
                                   /\ calls[k].call \in {"read", "write"}) =>
               /\ ret = 4
               /\ CallsOf("close") = {}
               /\ inited = 1
        /\ ret = 4 => CallsOf("close") = {}
        /\ ret = 1 =>
               /\ \E k \in CallsOn("write", INA226_REG_CONF) :
                      calls[k].ok /\ GetField3(calls[k].data, 0) = 0
               /\ calls[Len(calls)] = Close(FALSE)

C10_Witness ==
    op = "deinit" /\ ret = 4 /\ Len(calls) = 2 /\ ~calls[2].ok /\ inited = 1

----------------------------------------------------------------------------
(* C11..C20 *)

\* the setters of the three 3-bit fields, the bit each field starts at, and
\* the getter of each
FieldSetters == {"set_average_mode", "set_bus_voltage_conversion_time",
                 "set_shunt_voltage_conversion_time"}

FieldShift(o) ==
    CASE o \in {"set_average_mode", "get_average_mode"} -> 9
      [] o \in {"set_bus_voltage_conversion_time",
                "get_bus_voltage_conversion_time"} -> 6
      [] OTHER -> 3

FieldGetter(o) ==
    CASE o = "set_average_mode" -> "get_average_mode"
      [] o = "set_bus_voltage_conversion_time" -> "get_bus_voltage_conversion_time"
      [] OTHER -> "get_shunt_voltage_conversion_time"

\* the value of the bits lo..lo+2 of v
BitsAt(v, lo) == Bit(v, lo) + 2 * Bit(v, lo + 1) + 4 * Bit(v, lo + 2)

C12_SetModeFrame ==
    (op = "set_mode" /\ ret = 0) =>
        /\ trigger = (IF inp.a \in {1, 2, 3} THEN 1 ELSE 0)
        /\ inited = pre.inited /\ r = pre.r /\ iic_addr = pre.iic_addr
        /\ linked = pre.linked /\ current_lsb = pre.current_lsb
        /\ BitsAt(conf, 0) = inp.a
        /\ \A n \in 3 .. 15 : Bit(conf, n) = Bit(pre.conf, n)
        /\ mask = pre.mask

C12_Witness ==
    /\ op = "set_mode" /\ ret = 0 /\ inp.a = 4
    /\ pre.trigger = 1 /\ trigger = 0
    /\ pre.conf = 32767 /\ conf = 32767 - 3

\* an irq_handler call that got past the handle checks
IrqCall == op = "irq_handler" /\ inp.h /\ pre.inited = 1

Callbacks == CallsOf("callback")

\* the highest of the bits 15..11 set in v, 0 if none is
RECURSIVE HighestAlert(_, _)
HighestAlert(v, n) ==
    IF n < 11 THEN 0 ELSE IF Bit(v, n) = 1 THEN n ELSE HighestAlert(v, n - 1)

\* C13: when the status value irq_handler reads has bit 4 set and at least
\* one of the bits 15..11, the callback is invoked exactly once, with the
\* number of the highest of these bits that is set.
C13_HighestAlertDispatched ==
    (IrqCall /\ calls # <<>> /\ calls[1].ok /\ Bit(calls[1].data, 4) = 1
        /\ HighestAlert(calls[1].data, 15) # 0) =>
        /\ Cardinality(Callbacks) = 1
        /\ \A k \in Callbacks : calls[k].data = HighestAlert(calls[1].data, 15)

C13_Witness ==
    /\ IrqCall /\ ret = 0
    /\ Bit(calls[1].data, 4) = 1 /\ Bit(calls[1].data, 15) = 0
    /\ Bit(calls[1].data, 14) = 1 /\ Bit(calls[1].data, 12) = 1
    /\ Bit(calls[1].data, 11) = 1
    /\ calls[2] = Callback(14)

C15_MathOverflowImmediate ==
    (op \in ReadOps /\ calls # <<>> /\ calls[1].ok /\ Bit(calls[1].data, 2) = 1) =>
        /\ ret = 4
        /\ Len(calls) = 1
        /\ out = -1
        /\ trigger = pre.trigger

C15_Witness ==
    /\ op = "read_current" /\ pre.trigger = 1 /\ trigger = 1
    /\ ret = 4 /\ calls = <<Rd(INA226_REG_MASK, Pow2(2))>>

\* C16: calculate_calibration on an initialized handle returns 4 when the
\* resistance is between -1e-6 and 1e-6 ohm, bounds included (-1000..1000
\* nano-ohm), leaving current_lsb as it was and storing no calibration code;
\* for any other resistance it returns 0.
C16_DegenerateResistance ==
    (op = "calculate_calibration" /\ inp.h /\ pre.inited = 1) =>
        /\ (pre.r >= -1000 /\ pre.r <= 1000) =>
               (ret = 4 /\ current_lsb = pre.current_lsb /\ out = -1)
        /\ (pre.r < -1000 \/ pre.r > 1000) => ret = 0

\* the single-bit setters of the mask register, the bit each one sets, and
\* the getter of each
MaskSetters == {"set_mask", "set_conversion_ready_alert_pin",
                "set_alert_polarity_pin", "set_alert_latch"}

MaskBitOf(o, i) ==
    CASE o \in {"set_mask", "get_mask"} -> i.a
      [] o \in {"set_conversion_ready_alert_pin",
                "get_conversion_ready_alert_pin"} -> 10
      [] o \in {"set_alert_polarity_pin", "get_alert_polarity_pin"} -> 1
      [] OTHER -> 0

MaskGetters == {"get_mask", "get_conversion_ready_alert_pin",
                "get_alert_polarity_pin", "get_alert_latch"}

\* C17: a setter of the mask register writes the value it read with its own
\* bit at the requested value and every other bit as read, so that on the
\* device no other setting changes; the getter of the same bit called next
\* returns the value set.
C17_MaskBitSetters ==
    /\ (op \in MaskSetters /\ Len(calls) = 2) =>
           /\ calls[1].call = "read" /\ calls[1].reg = INA226_REG_MASK
           /\ calls[2].call = "write" /\ calls[2].reg = INA226_REG_MASK
           /\ Bit(calls[2].data, MaskBitOf(op, inp)) = inp.b
           /\ \A n \in 0 .. 15 :
                  n # MaskBitOf(op, inp) => Bit(calls[2].data, n) = Bit(calls[1].data, n)
           /\ ret = 0 =>
                  \A n \in StoredMaskBits \ {MaskBitOf(op, inp)} :
                      Bit(mask, n) = Bit(pre.mask, n)
    /\ (last.op \in MaskSetters /\ last.ret = 0
           /\ op \in MaskGetters /\ ret = 0
           /\ MaskBitOf(op, inp) = MaskBitOf(last.op, last.inp)) =>
           out = last.inp.b

C17_Witness ==
    /\ last.op = "set_mask" /\ last.ret = 0 /\ last.inp.a = 13 /\ last.inp.b = 0
    /\ op = "get_mask" /\ inp.a = 13 /\ ret = 0 /\ out = 0
    /\ mask = DevWriteMask(65535) - Pow2(13)

\* C18: init on a handle with one of the seven capabilities missing returns
\* 3 before the transport is opened: it makes no open, read, write, delay
\* or close call, and inited is as before.
C18_MissingCapability ==
    (op = "init" /\ inp.h /\ pre.linked # Caps) =>
        /\ ret = 3
        /\ calls = <<>>
        /\ inited = pre.inited

C18_Witness ==
    /\ op = "init" /\ inp.h /\ pre.linked = Caps \ {"receive_callback"}
    /\ ret = 3 /\ calls = <<>> /\ inited = 0

\* a register read or write of the call failed
RegisterFault == \E k \in FailedCalls : calls[k].call \in {"read", "write"}

\* C19: an operation in which a register read or write fails returns the
\* transport fault code (1), in init and deinit as in every getter, setter
\* and read operation: never the code of an identity mismatch (4), of an
\* unconfirmed reset (5), of a math overflow or of a read timeout.
C19_TransportFaultDistinct == RegisterFault => ret = 1

\* the conversion from a voltage to a register value of each conversion back
ToRegister(o) ==
    CASE o = "shunt_voltage_convert_to_data" -> "shunt_voltage_convert_to_register"
      [] o = "bus_voltage_convert_to_data" -> "bus_voltage_convert_to_register"
      [] OTHER -> "no such conversion"

Abs(x) == IF x < 0 THEN -x ELSE x

\* C20: a shunt voltage between -32768/400 and 32767/400 mV, or a bus voltage
\* between 0 and 65535 * 1.25 mV, converted to a register value and back
\* differs from the voltage by less than one register count.
C20_VoltageRoundTrip ==
    (last.op = ToRegister(op) /\ last.ret = 0 /\ ret = 0 /\ inp.a = last.out) =>
        Abs(out - last.inp.a) < UnitsPerCount

----------------------------------------------------------------------------
(* The shunt voltage read from the device and the shunt voltage converted  *)
(* from the same register code                                             *)

\* codes of the shunt-voltage register: zero, the positive and the negative
\* end of the range and values inside both halves
ShuntCodes == {0, 1, 400, 32767, 32768, 40000, 65535}

ShuntReadInp ==
    {NullInp} \cup
    {[NoInp EXCEPT !.fail = f, !.ovf = o, !.cvrf = c, !.readyAt = s.readyAt,
                   !.pollFail = s.pollFail, !.raw = w] :
        f \in 0 .. 2, o \in 0 .. 1, c \in 0 .. 1, s \in PollScripts,
        w \in ShuntCodes}

any_read_shunt_voltage ==
    /\ FirstCall
    /\ \E i \in ShuntReadInp :
           Do("read_shunt_voltage", i, ina226_read_shunt_voltage(Handle, i))

\* res = ina226_read_shunt_voltage(h, &raw, &mV); ...;
\* res = ina226_shunt_voltage_convert_to_data(h, (uint16_t)raw, &mV2);
convert_shunt_code ==
    /\ last.op = "read_shunt_voltage" /\ last.ret = 0
    /\ \E i \in {[NoInp EXCEPT !.a = last.inp.raw]} :
           DoCal("shunt_voltage_convert_to_data", i,
                 ina226_shunt_voltage_convert_to_data(Handle, i))

InitShunt ==
    \/ \E t \in 0 .. 1 :
           InitAt(1, t, ConfResetValue, 0, 4000000, CurrentLsb(4000000))
    \/ InitAt(0, 0, ConfResetValue, 0, 4000000, ZeroLsb)

NextShunt ==
    \/ any_read_shunt_voltage
    \/ convert_shunt_code
    \/ take

SpecShunt == InitShunt /\ [][NextShunt]_vars

\* C21: for every 16-bit code c, ina226_shunt_voltage_convert_to_data(c) gives
\* the millivolt value ina226_read_shunt_voltage stores when the shunt-voltage
\* register holds c: the code read as a signed 16-bit integer, over 400.
C21_ShuntConversionsAgree ==
    (/\ op = "shunt_voltage_convert_to_data" /\ ret = 0
     /\ last.op = "read_shunt_voltage" /\ last.ret = 0
     /\ inp.a = last.inp.raw) =>
        /\ last.converted = <<Signed16(inp.a) * UnitsPerCount>>
        /\ <<out>> = last.converted

----------------------------------------------------------------------------
(* Two threads on one handle.  Thread 1 calls ina226_set_average_mode and  *)
(* thread 2 calls ina226_set_mode.  A register transfer is one step of a   *)
(* thread: the read of the configuration register into the local prev, and *)
(* later the write of the modified prev.  The driver takes no lock; the    *)
(* caller either serializes the two calls or does not.                     *)

\* the call each thread makes
ThreadCall(t, H, i) ==
    IF t = 1 THEN ina226_set_average_mode(H, i) ELSE ina226_set_mode(H, i)

ThreadInp(t) == RmwInp(IF t = 1 THEN {2, 7} ELSE {INA226_MODE_POWER_DOWN,
                                                  INA226_MODE_SHUNT_VOLTAGE_TRIGGERED}, 2)

\* a caller that serializes its calls lets one call run at a time
MayEnter(t) == threads.exclusive => threads.holder = 0

\* the call as it runs on the register content the thread has read
Continued(t) ==
    ThreadCall(t, [Handle EXCEPT !.conf = threads.prev[t]], threads.inp[t])

\* entry of the call up to and including its read of the register
thread_read(t) ==
    /\ threads.pc[t] = "idle"
    /\ MayEnter(t)
    /\ \E i \in ThreadInp(t) :
           LET R == ThreadCall(t, Handle, i)
               reads == Len(R.calls) > 0 /\ R.calls[1].ok
           IN  threads' =
                   [threads EXCEPT
                       !.pc[t] = IF reads THEN "read" ELSE "done",
                       !.prev[t] = IF reads THEN R.calls[1].data ELSE 0,
                       !.inp[t] = i,
                       !.ret[t] = IF reads THEN 0 ELSE R.ret,
                       !.holder = IF threads.exclusive /\ reads THEN t ELSE 0]
    /\ UNCHANGED <<inited, trigger, linked, r, iic_addr, current_lsb, conf, mask,
                   calibration, alert_limit, op, inp, ret, out, converted, calls,
                   pre, last, mon>>

\* the rest of the call: the write of the modified value, and what follows it
thread_write(t) ==
    /\ threads.pc[t] = "read"
    /\ LET R == Continued(t)
       IN  /\ conf' = IF R.ret = 0 THEN R.conf ELSE conf
           /\ trigger' = R.trigger
           /\ inited' = R.inited
           /\ threads' = [threads EXCEPT !.pc[t] = "done", !.ret[t] = R.ret,
                                         !.holder = 0]
    /\ UNCHANGED <<linked, r, iic_addr, current_lsb, mask, calibration,
                   alert_limit, op, inp, ret, out, converted, calls, pre, last,
                   mon>>

InitThreads ==
    \E x \in BOOLEAN, cf \in {ConfResetValue, 3591}, t \in 0 .. 1, ini \in 0 .. 1 :
        InitWith(ini, t, cf, 0, 0, 4000000, ZeroLsb,
                 [NoThreads EXCEPT !.exclusive = x])

NextThreads == \E t \in Threads : thread_read(t) \/ thread_write(t)

SpecThreads == InitThreads /\ [][NextThreads]_vars

\* both calls have returned success
BothSucceeded ==
    \A t \in Threads : threads.pc[t] = "done" /\ threads.ret[t] = 0 /\ threads.inp[t].h

\* the register holds the averaging mode thread 1 set and the operating mode
\* thread 2 set
BothUpdates ==
    /\ GetField3(conf, 9) = threads.inp[1].a
    /\ GetField3(conf, 0) = threads.inp[2].a

\* C22: when the caller serializes ina226_set_average_mode and ina226_set_mode
\* on the same handle, then after both returned success the configuration
\* register holds both new field values; without mutual exclusion a state is
\* reachable in which both returned success and one of the two is lost.
C22_SerializedKeepsBothUpdates ==
    (threads.exclusive /\ BothSucceeded) => BothUpdates

\* the lost update: both calls read the register before either wrote it
C22_Witness ==
    /\ ~threads.exclusive
    /\ BothSucceeded
    /\ threads.prev[1] = threads.prev[2]
    /\ ~BothUpdates

----------------------------------------------------------------------------
(* C23 *)

\* the status re-reads of a poll: every status read of the call but the first
PollReads == Cardinality(StatusReads) - 1

\* C23: every operation returns after a bounded number of transport calls: a
\* read operation called with trigger pending makes at most
\* INA226_READ_TIMEOUT status re-reads and at most INA226_READ_TIMEOUT delays
\* of one millisecond, whatever the device shows; and a failed transport call
\* is never repeated: it is the last register transfer of the operation,
\* which returns a failure.
C23_BoundedTransport ==
    /\ TriggeredRead =>
           /\ PollReads <= INA226_READ_TIMEOUT
           /\ Cardinality(CallsOf("delay")) <= INA226_READ_TIMEOUT
           /\ \A k \in CallsOf("delay") : calls[k].data = 1
    /\ op \in ReadOps /\ ~TriggeredRead => CallsOf("delay") = {}
    /\ \A k \in FailedCalls :
           /\ ret # 0
           /\ \A j \in 1 .. Len(calls) : j > k => calls[j].call = "close"

\* the device never shows conversion ready: the poll ends on its own
C23_Witness ==
    /\ TriggeredRead /\ NeverReady
    /\ PollReads = (INA226_READ_TIMEOUT + 1) \div 2
    /\ Cardinality(CallsOf("delay")) = PollReads
    /\ op = "read_bus_voltage"

----------------------------------------------------------------------------
(* The calibration register *)

\* i.a the calibration code; i.fail: 1 the write
ina226_set_calibration(H, i) ==
    IF ~i.h THEN Keep(H, 2, <<>>)
    ELSE IF NotInited(H.inited) THEN Keep(H, 3, <<>>)
    ELSE IF i.fail = 1 THEN Keep(H, 1, <<WrFail(INA226_REG_CALIBRATION, i.a)>>)
    ELSE Keep(H, 0, <<Wr(INA226_REG_CALIBRATION, i.a)>>)

\* i.fail: 1 the read
ina226_get_calibration(H, i) ==
    IF ~i.h THEN Keep(H, 2, <<>>)
    ELSE IF NotInited(H.inited) THEN Keep(H, 3, <<>>)
    ELSE IF i.fail = 1 THEN Keep(H, 1, <<RdFail(INA226_REG_CALIBRATION)>>)
    ELSE KeepOut(H, 0, H.calibration, <<Rd(INA226_REG_CALIBRATION, H.calibration)>>)

\* calibration codes the caller writes: the one ina226_calculate_calibration
\* yields, and another
CalibrationCodes == {CalibrationCode, 1000}

set_calibration ==
    \E i \in RmwInp(CalibrationCodes, 1) :
        Do("set_calibration", i, ina226_set_calibration(Handle, i))

get_calibration ==
    \E i \in RmwInp({0}, 1) :
        Do("get_calibration", i, ina226_get_calibration(Handle, i))

\* ina226_set_reg(handle, INA226_REG_CALIBRATION, data)
set_reg_calibration ==
    \E i \in RmwInp({INA226_REG_CALIBRATION}, 1), d \in CalibrationCodes :
        Do("set_reg", IF i.h THEN [i EXCEPT !.b = d] ELSE i,
           ina226_set_reg(Handle, IF i.h THEN [i EXCEPT !.b = d] ELSE i))

\* the calibration register holds its power-on value or a code written
\* earlier; the resistance is unset or the monitor's
InitCalibration ==
    \/ \E cal \in {0, 1000}, res \in {0, 4000000} :
           InitWith(1, 0, ConfResetValue, 0, cal, res, ZeroLsb, NoThreads)
    \/ InitAt(0, 0, ConfResetValue, 0, 4000000, ZeroLsb)

NextCalibration ==
    \/ calculate_calibration
    \/ set_calibration
    \/ get_calibration
    \/ set_reg_calibration
    \/ take

SpecCalibration == InitCalibration /\ [][NextCalibration]_vars

\* C24: ina226_calculate_calibration issues no transport call and changes
\* nothing but current_lsb, which it stores on success only, where it yields
\* the calibration code; the calibration register changes only in
\* ina226_set_calibration or a raw ina226_set_reg, so a read of it after
\* ina226_calculate_calibration alone gives the value it held before.
C24_CalculateCalibrationIsLocal ==
    /\ op = "calculate_calibration" =>
           /\ calls = <<>>
           /\ [Handle EXCEPT !.current_lsb = pre.current_lsb] = pre
           /\ ret = 0 => current_lsb = CurrentLsb(pre.r) /\ out = CalibrationCode
           /\ ret # 0 => current_lsb = pre.current_lsb /\ out = -1
    /\ calibration # pre.calibration => op \in {"set_calibration", "set_reg"}
    /\ (op = "get_calibration" /\ ret = 0 /\ last.op = "calculate_calibration") =>
           out = pre.calibration /\ pre.calibration \in {0, 1000}

C24_Witness ==
    /\ op = "get_calibration" /\ ret = 0 /\ out = 1000
    /\ last.op = "calculate_calibration" /\ last.ret = 0
    /\ last.out = CalibrationCode
    /\ current_lsb = CurrentLsb(4000000)

----------------------------------------------------------------------------
(* C25..C30 *)

\* the writes of the configuration register with the reset bit set
ResetWrites ==
    {k \in CallsOn("write", INA226_REG_CONF) : Bit(calls[k].data, 15) = 1}

\* the successful reads of the configuration register that show bit 15 clear
ConfirmingReads ==
    {k \in CallsOn("read", INA226_REG_CONF) :
        calls[k].ok /\ Bit(calls[k].data, 15) = 0}

\* C25: ina226_init issues a transport call only after the capability checks
\* passed, and the first is the open, followed by the read of the
\* manufacturer register; a successful init then has the reset write of the
\* configuration register, the 10 ms delay and the re-read of the
\* configuration register, in this order; a delay always directly follows a
\* successful reset write and precedes the re-read; inited becomes 1 only in
\* an init whose last call is the re-read showing bit 15 clear.
C25_InitOrder ==
    op = "init" =>
        /\ calls # <<>> => pre.linked = Caps /\ calls[1].call = "open"
        /\ Len(calls) > 1 =>
               calls[2].call \in {"read", "close"} /\
               (calls[2].call = "read" => calls[2].reg = INA226_REG_MANUFACTURER)
        /\ \A d \in CallsOf("delay") :
               /\ calls[d].data = INIT_DELAY_MS
               /\ d - 1 \in ResetWrites /\ calls[d - 1].ok
               /\ d < Len(calls) /\ d + 1 \in CallsOn("read", INA226_REG_CONF)
        /\ \A w \in ResetWrites : calls[w].ok => w + 1 \in CallsOf("delay")
        /\ ret = 0 =>
               \E w \in ResetWrites :
                   /\ 2 \in CallsOn("read", INA226_REG_MANUFACTURER) /\ 2 < w
                   /\ w + 2 = Len(calls) /\ w + 2 \in ConfirmingReads
        /\ (inited = 1 /\ pre.inited # 1) =>
               ret = 0 /\ Len(calls) \in ConfirmingReads

C25_Witness ==
    /\ op = "init" /\ ret = 0 /\ pre.inited = 0 /\ inited = 1
    /\ calls[4] = Wr(INA226_REG_CONF, SetBit(ConfResetValue, 15))
    /\ calls[5] = Delay(INIT_DELAY_MS)
    /\ calls[6] = Rd(INA226_REG_CONF, ConfResetValue)

\* the transport was opened by the call
Opened == \E k \in CallsOf("open") : calls[k].ok

\* C26: an ina226_init that fails after it opened the transport closes it
\* exactly once, as its last call; an init that returns before the open, or
\* whose open fails, or that succeeds, does not close it.
C26_InitClosesOnFailure ==
    op = "init" =>
        /\ (Opened /\ ret # 0) =>
               /\ Cardinality(CallsOf("close")) = 1
               /\ calls[Len(calls)].call = "close"
               /\ CallsOf("open") = {1}
        /\ (~Opened \/ ret = 0) => CallsOf("close") = {}

\* the reset bit is still set on the re-read
C26_Witness ==
    /\ op = "init" /\ ret = 5 /\ FailedCalls = {}
    /\ Len(calls) = 7 /\ calls[7].call = "close"
    /\ Bit(calls[6].data, 15) = 1

\* the first status read of the call shows conversion ready and no math
\* overflow
ReadyAtOnce ==
    /\ calls # <<>> /\ calls[1].ok
    /\ Bit(calls[1].data, 3) = 1 /\ Bit(calls[1].data, 2) = 0

\* C27: a read operation called with trigger pending whose first status read
\* shows conversion ready (and no math overflow) makes exactly two register
\* reads, the status and then its measurement register, without a poll
\* re-read or a delay, and clears trigger.
C27_ReadyAtOnce ==
    (TriggeredRead /\ ReadyAtOnce) =>
        /\ Len(calls) = 2
        /\ calls[1].call = "read" /\ calls[1].reg = INA226_REG_MASK
        /\ calls[2].call = "read" /\ calls[2].reg = MeasurementReg(op)
        /\ trigger = 0
        /\ ret = (IF calls[2].ok THEN 0 ELSE 1)

C27_Witness ==
    /\ op = "read_power" /\ pre.trigger = 1 /\ trigger = 0 /\ ret = 0
    /\ calls = <<Rd(INA226_REG_MASK, StatusWord(0, 1)), Rd(INA226_REG_POWER, 100)>>

\* the write of the configuration register by the call succeeded
ConfWritten == \E k \in CallsOn("write", INA226_REG_CONF) : calls[k].ok

\* C28: after an ina226_deinit whose power-down write succeeded trigger is 0,
\* also when a triggered command was pending when it was called.
C28_DeinitClearsTrigger == (op = "deinit" /\ ConfWritten) => trigger = 0

----------------------------------------------------------------------------
(* One call of a read-modify-write setter, of the configuration register   *)
(* or of the mask register, on any register content                        *)

first_soft_reset == FirstCall /\ soft_reset

InitSetters ==
    \/ \E t \in 0 .. 1, cf \in {ConfResetValue, 3591},
          mk \in {0, DevWriteMask(65535), Pow2(13) + Pow2(10)} :
           InitAt(1, t, cf, mk, 4000000, ZeroLsb)
    \/ InitAt(0, 0, ConfResetValue, 0, 4000000, ZeroLsb)

NextSetters ==
    \/ any_set_average_mode
    \/ any_set_bus_voltage_conversion_time
    \/ any_set_shunt_voltage_conversion_time
    \/ any_set_mode
    \/ first_soft_reset
    \/ set_mask
    \/ set_conversion_ready_alert_pin
    \/ set_alert_polarity_pin
    \/ set_alert_latch

SpecSetters == InitSetters /\ [][NextSetters]_vars

\* the read-modify-write setters
RmwSetters == FieldSetters \cup MaskSetters \cup {"set_mode", "soft_reset"}

\* the register an operation modifies
SetterReg(o) == IF o \in MaskSetters THEN INA226_REG_MASK ELSE INA226_REG_CONF

\* C29: a read-modify-write setter of the configuration or the mask register
\* whose initial register read fails returns 1 without a register write, and
\* leaves the device registers and the handle as they were.
C29_FailedReadWritesNothing ==
    (op \in RmwSetters /\ calls # <<>> /\ ~calls[1].ok) =>
        /\ calls = <<RdFail(SetterReg(op))>>
        /\ ret = 1
        /\ Handle = pre

C29_Witness ==
    /\ op = "set_alert_latch" /\ inp.b = 0 /\ ret = 1
    /\ calls = <<RdFail(INA226_REG_MASK)>>
    /\ mask = DevWriteMask(65535) /\ pre.trigger = 1

\* C30: an ina226_set_mode that fails, on the read or on the write of the
\* configuration register, leaves trigger as it was; trigger changes only in
\* a call whose write succeeded.
C30_SetModeFailureKeepsTrigger ==
    op = "set_mode" =>
        /\ ret # 0 => trigger = pre.trigger
        /\ trigger # pre.trigger => ret = 0 /\ ConfWritten

\* the write of a power-down request fails while a trigger is pending
C30_Witness ==
    /\ op = "set_mode" /\ inp.a = INA226_MODE_POWER_DOWN /\ pre.trigger = 1
    /\ ret = 1 /\ Len(calls) = 2 /\ ~calls[2].ok
    /\ trigger = 1

----------------------------------------------------------------------------
(* C31..C38 *)

\* a status re-read of the poll failed
PollReadFailed ==
    \E k \in StatusReads : k > 1 /\ ~calls[k].ok

\* the read of the measurement register failed after the call saw
\* conversion ready
MeasurementFailedWhenReady ==
    /\ \E k \in CallsOn("read", MeasurementReg(op)) : ~calls[k].ok
    /\ ReadyObserved

\* C31: in a read operation with trigger pending, a failed status re-read of
\* the poll ends the call at once with 1, trigger still 1 and the measurement
\* register not read; a failed read of the measurement register after
\* conversion ready was seen returns 1 with trigger already 0, so that the
\* next read does not poll.
C31_ReadFailuresAndTrigger ==
    /\ TriggeredRead =>
           /\ PollReadFailed =>
                  /\ ret = 1
                  /\ trigger = 1
                  /\ ~calls[Len(calls)].ok
                  /\ calls[Len(calls)].reg = INA226_REG_MASK
                  /\ CallsOn("read", MeasurementReg(op)) = {}
           /\ MeasurementFailedWhenReady =>
                  /\ ret = 1
                  /\ trigger = 0
                  /\ ~calls[Len(calls)].ok
    /\ (op \in ReadOps /\ inp.h /\ pre.inited = 1 /\ pre.trigger = 0) =>
           Cardinality(StatusReads) = 1 /\ CallsOf("delay") = {}

\* the second status re-read fails
C31_Witness ==
    /\ op = "read_current" /\ pre.trigger = 1 /\ trigger = 1 /\ ret = 1
    /\ Len(calls) = 4 /\ calls[3] = Delay(1)
    /\ calls[4] = RdFail(INA226_REG_MASK)

\* C32: ina226_soft_reset on an initialized handle reads the configuration
\* register and writes it back with bit 15 set and every other bit as read;
\* it issues no delay and no read after the write, and leaves inited, trigger
\* and current_lsb as they were.
C32_SoftResetFrame ==
    (op = "soft_reset" /\ inp.h /\ pre.inited = 1) =>
        /\ calls[1].call = "read" /\ calls[1].reg = INA226_REG_CONF
        /\ calls[1].ok =>
               /\ Len(calls) = 2
               /\ calls[2].call = "write" /\ calls[2].reg = INA226_REG_CONF
               /\ calls[2].data = SetBit(calls[1].data, 15)
               /\ ret = (IF calls[2].ok THEN 0 ELSE 1)
        /\ ~calls[1].ok => Len(calls) = 1 /\ ret = 1
        /\ inited = pre.inited /\ trigger = pre.trigger
        /\ current_lsb = pre.current_lsb

\* a reset while a trigger is pending and the device is in a triggered mode
C32_Witness ==
    /\ op = "soft_reset" /\ ret = 0 /\ pre.trigger = 1 /\ trigger = 1
    /\ GetField3(pre.conf, 0) = INA226_MODE_SHUNT_BUS_VOLTAGE_TRIGGERED
    /\ calls[2] = Wr(INA226_REG_CONF, SetBit(pre.conf, 15))
    /\ conf = ConfResetValue

----------------------------------------------------------------------------
(* The register transfers byte by byte.  The device receives and sends a   *)
(* register most significant byte first; the alert limit register stores   *)
(* the sixteen bits written to it.                                         *)

\* buf[0] = (uint8_t)((data >> 8) & 0xFF); buf[1] = (uint8_t)((data >> 0) & 0xFF)
IicWriteBuf(v) == <<(v \div Pow2(8)) % Pow2(8), v % Pow2(8)>>

\* faulty variant: the low byte is taken first
IicReadData_low_byte_first(buf) == (buf[2] * Pow2(8) + buf[1]) % Pow2(16)

\* *data = (uint16_t)buf[0] << 8 | buf[1]
IicReadData(buf) == (buf[1] * Pow2(8) + buf[2]) % Pow2(16)

\* the register content the device takes from the bytes of a write, and the
\* bytes it sends for a read
DevReceive(buf) == buf[1] * Pow2(8) + buf[2]
DevSend(v) == <<v \div Pow2(8), v % Pow2(8)>>

\* handle->iic_write(handle->iic_addr, reg, buf, 2) and
\* handle->iic_read(handle->iic_addr, reg, buf, 2): the bytes passed
IicWrite(reg, buf, ok) == Call("iic_write", reg, buf, ok)
IicRead(reg, buf, ok) == Call("iic_read", reg, buf, ok)

ResBytes(rc, o, cs) == [ret |-> rc, out |-> o, calls |-> cs]

\* ina226_set_reg down to the bytes; i.a the register, i.b the data;
\* i.fail: 1 the write
ina226_set_reg_bytes(H, i) ==
    IF ~i.h THEN ResBytes(2, -1, <<>>)
    ELSE IF NotInited(H.inited) THEN ResBytes(3, -1, <<>>)
    ELSE IF i.fail = 1 THEN ResBytes(1, -1, <<IicWrite(i.a, IicWriteBuf(i.b), FALSE)>>)
    ELSE ResBytes(0, -1, <<IicWrite(i.a, IicWriteBuf(i.b), TRUE)>>)

\* ina226_get_reg down to the bytes; i.a the register; i.fail: 1 the read,
\* which leaves the zeroed buffer
ina226_get_reg_bytes(H, i) ==
    IF ~i.h THEN ResBytes(2, -1, <<>>)
    ELSE IF NotInited(H.inited) THEN ResBytes(3, -1, <<>>)
    ELSE IF i.fail = 1 THEN ResBytes(1, -1, <<IicRead(i.a, <<0, 0>>, FALSE)>>)
    ELSE ResBytes(0, IicReadData(DevSend(H.alert_limit)),
                  <<IicRead(i.a, DevSend(H.alert_limit), TRUE)>>)

\* a transfer on the alert limit register as a step
DoBytes(name, i, R) ==
    /\ op = "none"
    /\ op' = name
    /\ inp' = i
    /\ pre' = Handle
    /\ ret' = R.ret
    /\ out' = R.out
    /\ converted' = <<>>
    /\ calls' = R.calls
    /\ alert_limit' =
           IF \E k \in 1 .. Len(R.calls) :
                  R.calls[k].call = "iic_write" /\ R.calls[k].ok
           THEN DevReceive(R.calls[1].data)
           ELSE alert_limit
    /\ UNCHANGED <<inited, trigger, linked, r, iic_addr, current_lsb, conf, mask,
                   calibration, last, threads, mon>>

\* every 16-bit value
Words == 0 .. Pow2(16) - 1

\* the write of two of the values may fail
set_reg_bytes ==
    /\ FirstCall
    /\ op = "none"
    /\ \E i \in {NullInp} \cup
                {[NoInp EXCEPT !.a = INA226_REG_ALERT_LIMIT, !.b = v] : v \in Words}
                \cup {[NoInp EXCEPT !.a = INA226_REG_ALERT_LIMIT, !.b = v, !.fail = 1] :
                         v \in {0, 43981}} :
           DoBytes("set_reg", i, ina226_set_reg_bytes(Handle, i))

get_reg_bytes ==
    \E i \in RmwInp({INA226_REG_ALERT_LIMIT}, 1) :
        DoBytes("get_reg", i, ina226_get_reg_bytes(Handle, i))

InitBytes ==
    \/ InitAt(1, 0, ConfResetValue, 0, 4000000, ZeroLsb)
    \/ InitAt(0, 0, ConfResetValue, 0, 4000000, ZeroLsb)

NextBytes ==
    \/ set_reg_bytes
    \/ get_reg_bytes
    \/ take

SpecBytes == InitBytes /\ [][NextBytes]_vars

\* C33: a register write passes exactly the two bytes [v >> 8, v & 0xFF], a
\* register read takes exactly two bytes and yields buf[0] << 8 | buf[1]; so
\* for every v in 0..65535 ina226_get_reg after ina226_set_reg(reg, v), on a
\* register that stores what is written, returns v.
C33_BigEndianRoundTrip ==
    /\ (op = "set_reg" /\ calls # <<>>) =>
           /\ Len(calls) = 1 /\ calls[1].call = "iic_write"
           /\ calls[1].data = <<inp.b \div 256, inp.b % 256>>
    /\ (op = "get_reg" /\ calls # <<>>) =>
           /\ Len(calls) = 1 /\ calls[1].call = "iic_read"
           /\ Len(calls[1].data) = 2
           /\ ret = 0 => out = calls[1].data[1] * 256 + calls[1].data[2]
    /\ (op = "get_reg" /\ ret = 0 /\ last.op = "set_reg" /\ last.ret = 0) =>
           out = last.inp.b

C33_Witness ==
    /\ op = "get_reg" /\ ret = 0 /\ out = 43981
    /\ last.op = "set_reg" /\ last.ret = 0 /\ last.inp.b = 43981
    /\ calls[1].data = <<171, 205>>

----------------------------------------------------------------------------
(* The monitor application (pdm_monitor.c): two sensors, each with its own *)
(* handle and device, a main loop that calls PDM_Monitor_Update, and the   *)
(* interrupt that sets the alert flags.  Times are in milliseconds; a      *)
(* channel's voltage, current and power are in the units of the driver's   *)
(* reads, its energy in power units times milliseconds (dt_h not divided   *)
(* by 3600000).  Float rounding is not modelled.                           *)

INTERVAL_READ == 50
INTERVAL_CAN == 500
INTERVAL_UART == 1000

INA226_ADDRESS_0 == 128
INA226_ADDRESS_1 == 130
INA226_AVG_16 == 2
INA226_CONVERSION_TIME_1P1_MS == 4
INA226_MODE_SHUNT_BUS_VOLTAGE_CONTINUOUS == 7

\* uint32_t a + d, for d below 2^16
Add32(a, d) ==
    LET lo == a.lo + d
    IN  Word32((a.hi + lo \div Pow2(16)) % Pow2(16), lo % Pow2(16))

\* faulty variant: the difference of the low halves does not borrow
Sub32_no_borrow(a, b) ==
    Word32((a.hi - b.hi) % Pow2(16), (a.lo - b.lo) % Pow2(16))

\* uint32_t a - b: the difference modulo 2^32
Sub32(a, b) ==
    LET borrow == IF a.lo < b.lo THEN 1 ELSE 0
    IN  Word32((a.hi - b.hi - borrow) % Pow2(16), (a.lo - b.lo) % Pow2(16))

\* now - g_last_..._tick >= INTERVAL_..., for an interval below 2^16
Due(now, since, interval) ==
    LET d == Sub32(now, since) IN d.hi > 0 \/ d.lo >= interval

\* (float)(now - g_last_read_tick), for a difference below 2^31
Millis(d) == d.hi * Pow2(16) + d.lo

Interval(k) ==
    IF k = "read" THEN INTERVAL_READ
    ELSE IF k = "can" THEN INTERVAL_CAN
    ELSE INTERVAL_UART

\* the value of F at v, with v evaluated once
With(v, F(_)) == CHOOSE y \in {F(x) : x \in {v}} : TRUE

\* handle and device after a driver call on them with the result R
HandleAfter(H, R) ==
    With(<<H, R>>, LAMBDA p :
        [f \in DOMAIN p[1] |->
            IF f \in DOMAIN p[2] THEN p[2][f]
            ELSE IF f = "calibration"
                THEN DevWritten(INA226_REG_CALIBRATION, p[1].calibration, p[2].calls)
            ELSE p[1][f]])

\* a driver call as the log keeps it
Logged(fn, R) == [fn |-> fn, ret |-> R.ret, calls |-> R.calls]

\* link_handle: DRIVER_INA226_LINK_INIT zeroes the handle, the other macros
\* link the seven capabilities; the device is not touched
link_handle(H) ==
    [H EXCEPT !.inited = 0, !.trigger = 0, !.r = 0, !.iic_addr = 0,
              !.current_lsb = ZeroLsb, !.linked = Caps]

\* the k-th driver call of init_one, on the handle h: cal the calibration
\* code ina226_calculate_calibration has stored, mode the mode selected.
\* I.init the inputs of ina226_init; the I.step-th of the calls after it (0
\* none) meets the transport fault I.f
InitCall(k, h, cal, I, mode) ==
    LET Arg(j, a) == [NoInp EXCEPT !.a = a, !.fail = IF I.step = j THEN I.f ELSE 0]
    IN  IF k = 1 THEN ina226_init(h, I.init)
        ELSE IF k = 2 THEN ina226_set_average_mode(h, Arg(1, INA226_AVG_16))
        ELSE IF k = 3
            THEN ina226_set_bus_voltage_conversion_time(
                     h, Arg(2, INA226_CONVERSION_TIME_1P1_MS))
        ELSE IF k = 4
            THEN ina226_set_shunt_voltage_conversion_time(
                     h, Arg(3, INA226_CONVERSION_TIME_1P1_MS))
        ELSE IF k = 5 THEN ina226_calculate_calibration(h, NoInp)
        ELSE IF k = 6 THEN ina226_set_calibration(h, Arg(4, cal))
        ELSE ina226_set_mode(h, Arg(5, mode))

InitCallNames ==
    <<"init", "set_average_mode", "set_bus_voltage_conversion_time",
      "set_shunt_voltage_conversion_time", "calculate_calibration",
      "set_calibration", "set_mode">>

\* res = ina226_...(h, ...); if (res != 0) return res; from the k-th call
\* on, with acc the return code, the handle, the calls and the calibration
\* code so far
RECURSIVE InitSteps(_, _, _, _)
InitSteps(k, acc, I, mode) ==
    IF k > Len(InitCallNames) \/ acc.ret # 0 THEN acc
    ELSE With(InitCall(k, acc.h, acc.cal, I, mode), LAMBDA R :
             With([ret |-> R.ret,
                   h |-> HandleAfter(acc.h, R),
                   log |-> Append(acc.log, Logged(InitCallNames[k], R)),
                   cal |-> IF InitCallNames[k] = "calculate_calibration"
                           THEN R.out ELSE acc.cal],
                  LAMBDA a : InitSteps(k + 1, a, I, mode)))

\* init_one with the mode it selects as a parameter
InitOneWithMode(H, addr, I, mode) ==
    With([ret |-> 0, h |-> [H EXCEPT !.iic_addr = addr, !.r = 4000000],
          log |-> <<>>, cal |-> 0],
         LAMBDA a : InitSteps(1, a, I, mode))

\* faulty variant: the mode selected is shunt and bus voltage triggered
init_one_triggered(H, addr, I) ==
    InitOneWithMode(H, addr, I, INA226_MODE_SHUNT_BUS_VOLTAGE_TRIGGERED)

init_one(H, addr, I) ==
    InitOneWithMode(H, addr, I, INA226_MODE_SHUNT_BUS_VOLTAGE_CONTINUOUS)

\* the value a read has stored through its pointer; the local it points to
\* is not initialized, here 0, when the read has failed
ReadValue(R) == IF "converted" \in DOMAIN R THEN R.converted[1] ELSE 0

\* faulty variant: the value is stored whatever the read returned
ReadSucceeded_unchecked(R) == TRUE

\* if (ina226_read_...(h, &raw, &v) == 0)
ReadSucceeded(R) == R.ret = 0

\* read_channel: I the inputs of the three reads, dt the time since the
\* last read
read_channel(H, ch, dt, I) ==
    With(ina226_read_bus_voltage(H, I[1]), LAMBDA r1 :
    With(HandleAfter(H, r1), LAMBDA h1 :
    With(ina226_read_current(h1, I[2]), LAMBDA r2 :
    With(HandleAfter(h1, r2), LAMBDA h2 :
    With(ina226_read_power(h2, I[3]), LAMBDA r3 :
        [h |-> HandleAfter(h2, r3),
         ch |-> [ch EXCEPT
                    !.voltage_mV = IF ReadSucceeded(r1) THEN ReadValue(r1) ELSE @,
                    !.current_mA = IF ReadSucceeded(r2) THEN ReadValue(r2) ELSE @,
                    !.power_mW = IF ReadSucceeded(r3) THEN ReadValue(r3) ELSE @,
                    !.energy_mWh = IF ReadSucceeded(r3)
                                   THEN @ + ReadValue(r3) * dt ELSE @],
         log |-> <<Logged("read_bus_voltage", r1), Logged("read_current", r2),
                   Logged("read_power", r3)>>])))))

\* a step that calls no driver function and runs no periodic task
Quiet(m) ==
    [m EXCEPT !.log = <<>>, !.fired = <<>>,
              !.before = [ch |-> m.ch, elapsed |-> m.elapsed]]

\* the driver calls lg, as calls made for the sensor s
ForSensor(s, lg) == [k \in 1 .. Len(lg) |-> lg[k] @@ [s |-> s]]

\* the monitor after PDM_Monitor_Init, with a[s] what init_one has done for
\* the sensor s (no call in its log: init_one was not called)
AfterInit(m, a) ==
    [Quiet(m) EXCEPT
        !.pc = "idle",
        !.ch = [s \in Sensors |-> ZeroChannel],
        !.h = [s \in Sensors |-> a[s].h],
        !.now = m.tick,
        !.last_tick = [k \in Tasks |-> m.tick],
        !.log = ForSensor(1, a[1].log) \o ForSensor(2, a[2].log),
        !.init_ret = [s \in Sensors |->
                         IF a[s].log = <<>> THEN -1 ELSE a[s].log[1].ret],
        !.elapsed = [k \in Tasks |-> 0]]

\* faulty variant: PDM_Monitor_Init returns when the first init_one fails
PDM_Monitor_Init_stops_at_failure(m, I) ==
    With(init_one(link_handle(m.h[1]), INA226_ADDRESS_0, I[1]), LAMBDA a1 :
        AfterInit(m, <<a1,
                       IF a1.ret = 0
                       THEN init_one(link_handle(m.h[2]), INA226_ADDRESS_1, I[2])
                       ELSE [ret |-> 0, h |-> link_handle(m.h[2]), log |-> <<>>]>>))

\* PDM_Monitor_Init: I[s] the inputs of init_one for the sensor s.  A failed
\* init_one is reported and nothing else
PDM_Monitor_Init(m, I) ==
    AfterInit(m, <<init_one(link_handle(m.h[1]), INA226_ADDRESS_0, I[1]),
                   init_one(link_handle(m.h[2]), INA226_ADDRESS_1, I[2])>>)

\* the three periodic tasks of PDM_Monitor_Update, with now = HAL_GetTick():
\* I[s] the inputs of the three reads of the sensor s
PeriodicTasks(m, I) ==
    With([k \in Tasks |-> Due(m.tick, m.last_tick[k], Interval(k))], LAMBDA due :
    With(IF due["read"]
         THEN With(Millis(Sub32(m.tick, m.last_tick["read"])), LAMBDA dt :
                  [s \in Sensors |-> read_channel(m.h[s], m.ch[s], dt, I[s])])
         ELSE [s \in Sensors |-> [h |-> m.h[s], ch |-> m.ch[s], log |-> <<>>]],
         LAMBDA c :
        [m EXCEPT !.now = m.tick,
                  !.last_tick = [k \in Tasks |-> IF due[k] THEN m.tick ELSE @[k]],
                  !.h = [s \in Sensors |-> c[s].h],
                  !.ch = [s \in Sensors |-> c[s].ch],
                  !.log = ForSensor(1, c[1].log) \o ForSensor(2, c[2].log),
                  !.fired = SelectSeq(<<"read", "can", "uart">>, LAMBDA k : due[k]),
                  !.before = [ch |-> m.ch, elapsed |-> m.elapsed],
                  !.elapsed = [k \in Tasks |-> IF due[k] THEN 0 ELSE @[k]],
                  !.cleared = [s \in Sensors |-> FALSE],
                  !.age = [s \in Sensors |-> IF m.pending[s] THEN @[s] + 1 ELSE 0]]))

\* faulty variant: the flag is cleared when the handler has returned
AlertNext_clear_last(at) ==
    IF at = "test" THEN "call"
    ELSE IF at = "call" THEN "handler"
    ELSE IF at = "handler" THEN "clear"
    ELSE "done"

\* if (g_alert_flag) { g_alert_flag = 0; ina226_irq_handler(&g_ina226); }
\* the position after the one at, when the test has found the flag set
AlertNext(at) ==
    IF at = "test" THEN "clear"
    ELSE IF at = "clear" THEN "call"
    ELSE IF at = "call" THEN "handler"
    ELSE "done"

\* the main loop at the position at of the alert handling of the sensor s;
\* after the battery sensor's PDM_Monitor_Update returns
At(m, at, s) ==
    IF at # "done" THEN [m EXCEPT !.pc = at, !.s = s]
    ELSE IF s = 1 THEN [m EXCEPT !.pc = "test", !.s = 2]
    ELSE [m EXCEPT !.pc = "idle", !.s = 0]

\* the driver's own variables: the monitor application has its handles
driver == <<inited, trigger, linked, r, iic_addr, current_lsb, conf, mask,
            calibration, alert_limit, op, inp, ret, out, converted, calls, pre,
            last, threads>>

monitor_init(Inps) ==
    /\ mon.pc = "boot"
    /\ \E I \in [Sensors -> Inps] : mon' = PDM_Monitor_Init(mon, I)
    /\ UNCHANGED driver

\* the reads of a call that issues no transfer ask the device nothing
NoReads == [k \in 1 .. 3 |-> NoInp]

\* PDM_Monitor_Update up to the alert handling; Inps[s] the inputs of the
\* three reads of the sensor s, which are consumed when the read task is
\* due and the handle is initialized
update_tasks(Inps) ==
    /\ mon.pc = "idle"
    /\ LET reads(s) ==
               IF /\ Due(mon.tick, mon.last_tick["read"], INTERVAL_READ)
                  /\ mon.h[s].inited = 1
               THEN Inps[s] ELSE {NoReads}
       IN  \E I1 \in reads(1), I2 \in reads(2) :
               mon' = At(PeriodicTasks(mon, <<I1, I2>>), "test", 1)
    /\ UNCHANGED driver

\* if (g_alert_flag)
alert_test(s) ==
    /\ mon.pc = "test" /\ mon.s = s
    /\ mon' = At(Quiet(mon),
                 IF mon.alert_flag[s] # 0 THEN AlertNext("test") ELSE "done", s)
    /\ UNCHANGED driver

\* g_alert_flag = 0
alert_clear(s) ==
    /\ mon.pc = "clear" /\ mon.s = s
    /\ mon' = At([Quiet(mon) EXCEPT !.alert_flag[s] = 0, !.cleared[s] = TRUE],
                 AlertNext("clear"), s)
    /\ UNCHANGED driver

\* the call of ina226_irq_handler
alert_call(s) ==
    /\ mon.pc = "call" /\ mon.s = s
    /\ mon' = At([Quiet(mon) EXCEPT !.pending[s] = FALSE, !.age[s] = 0],
                 AlertNext("call"), s)
    /\ UNCHANGED driver

\* ina226_irq_handler runs and returns
alert_handler(s) ==
    /\ mon.pc = "handler" /\ mon.s = s
    /\ \E i \in IrqInp \ {NullInp} :
           LET R == ina226_irq_handler(mon.h[s], i)
           IN  /\ Consumed(i, R)
               /\ mon' = At([Quiet(mon) EXCEPT
                                !.h[s] = HandleAfter(@, R),
                                !.log = ForSensor(s, <<Logged("irq_handler", R)>>)],
                            AlertNext("handler"), s)
    /\ UNCHANGED driver

\* the EXTI callback sets the flag, at one of the positions Where of the
\* main loop
isr(s, Where) ==
    /\ mon.pc \in Where
    /\ mon.alert_flag[s] = 0 \/ ~mon.pending[s]
    /\ mon' = [Quiet(mon) EXCEPT !.alert_flag[s] = 1, !.pending[s] = TRUE]
    /\ UNCHANGED driver

\* d milliseconds pass between two calls of PDM_Monitor_Update, for a d of
\* Ds, until limit milliseconds have passed since power-on
elapse(Ds, limit) ==
    /\ mon.pc = "idle"
    /\ \E d \in Ds :
           /\ mon.uptime + d <= limit
           /\ mon' = [Quiet(mon) EXCEPT !.tick = Add32(@, d),
                                 !.uptime = @ + d,
                                 !.elapses = @ + 1,
                                 !.elapsed = [k \in Tasks |-> @[k] + d]]
    /\ UNCHANGED driver

----------------------------------------------------------------------------
(* The monitor application with its faults: any call of init_one may fail, *)
(* for either sensor, and so may any read                                  *)

\* the milliseconds the monitor is followed for
MaxUptime == 100

\* the time that passes between two Update calls
ReadPeriods == {INTERVAL_READ}

\* ina226_init meets no fault
InitOk == [NoInp EXCEPT !.id = MANUFACTURER_ID]

\* init_one: no fault, a fault in ina226_init (the transport cannot be
\* opened, a transfer fails, the identity is wrong, the reset is not
\* confirmed), or a failed transfer in one of the calls after it
InitOneInps ==
    {[init |-> InitOk, step |-> 0, f |-> 0]} \cup
    {[init |-> [NoInp EXCEPT !.fail = f], step |-> 0, f |-> 0] : f \in 1 .. 2} \cup
    {[init |-> [InitOk EXCEPT !.fail = f], step |-> 0, f |-> 0] : f \in 3 .. 5} \cup
    {[init |-> [InitOk EXCEPT !.id = 73], step |-> 0, f |-> 0],
     [init |-> [InitOk EXCEPT !.resetOk = FALSE], step |-> 0, f |-> 0]} \cup
    {[init |-> InitOk, step |-> k, f |-> 1] : k \in 1 .. 5}

\* the interrupt is taken between two Update calls
BetweenUpdates == {"idle"}

\* a read that succeeds, and the faults of a read: the status read fails,
\* the register read fails, the device shows math overflow
ReadOk == [NoInp EXCEPT !.raw = 100]
ReadFaults == {[NoInp EXCEPT !.fail = 1], [NoInp EXCEPT !.fail = 2],
               [NoInp EXCEPT !.ovf = 1]}

\* the three reads of read_channel: all succeed, one of them meets a fault,
\* or all do
ChannelReadInps ==
    {[k \in 1 .. 3 |-> ReadOk]} \cup
    {[k \in 1 .. 3 |-> IF k = j THEN f ELSE ReadOk] : j \in 1 .. 3, f \in ReadFaults} \cup
    {[k \in 1 .. 3 |-> f] : f \in ReadFaults}

\* the three reads all succeed, or the first transfer of each fails
AllOrNothing == {[k \in 1 .. 3 |-> ReadOk], [k \in 1 .. 3 |-> [NoInp EXCEPT !.fail = 1]]}

\* the program at power-on, with the tick counter at t0
InitMonitorAt(t0) ==
    /\ inited = 0
    /\ trigger = 0
    /\ linked = {}
    /\ r = 0
    /\ iic_addr = 0
    /\ current_lsb = ZeroLsb
    /\ conf = ConfResetValue
    /\ mask = 0
    /\ calibration = 0
    /\ alert_limit = 0
    /\ op = "none"
    /\ inp = NoInp
    /\ ret = 0
    /\ out = -1
    /\ converted = <<>>
    /\ calls = <<>>
    /\ pre = ZeroHandle
    /\ last = NoLast
    /\ threads = NoThreads
    /\ mon = [NoMon EXCEPT !.tick = t0]

InitMonitor == InitMonitorAt(Word32(0, 0))

NextMonitor ==
    \/ monitor_init(InitOneInps)
    \/ update_tasks([s \in Sensors |-> AllOrNothing])
    \/ elapse(ReadPeriods, MaxUptime)
    \/ \E s \in Sensors :
           \/ isr(s, BetweenUpdates)
           \/ alert_test(s)
           \/ alert_clear(s)
           \/ alert_call(s)
           \/ alert_handler(s)

SpecMonitor == InitMonitor /\ [][NextMonitor]_vars

\* the driver reads read_channel issues
ChannelReads == {"read_bus_voltage", "read_current", "read_power"}

\* the calls of the last step that read_channel has made for the sensor s
ReadsOf(s) ==
    {k \in 1 .. Len(mon.log) : mon.log[k].s = s /\ mon.log[k].fn \in ChannelReads}

\* C34: in the monitor application no trigger is ever pending for either
\* handle, whatever fault init_one or a read has met, and no read issued
\* from PDM_Monitor_Update calls the millisecond delay
C34_NeverTriggered ==
    \A s \in Sensors :
        /\ mon.h[s].trigger = 0
        /\ \A k \in ReadsOf(s) :
               \A j \in 1 .. Len(mon.log[k].calls) :
                   mon.log[k].calls[j].call # "delay"

\* PDM_Monitor_Update has read both sensors, the second of which
\* init_one left initialized without its mode set
C34_Witness ==
    /\ mon.fired # <<>> /\ mon.fired[1] = "read"
    /\ \A s \in Sensors :
           /\ Cardinality(ReadsOf(s)) = 3
           /\ \A k \in ReadsOf(s) : mon.log[k].ret = 0 /\ Len(mon.log[k].calls) = 2
    /\ mon.h[2].inited = 1 /\ mon.h[2].calibration = 0

\* the calls of the last step made for the sensor s from PDM_Monitor_Update
UpdateCallsOf(s) ==
    {k \in 1 .. Len(mon.log) :
        mon.log[k].s = s /\ mon.log[k].fn \in ChannelReads \cup {"irq_handler"}}

\* ina226_init has failed for the sensor s
InitFailed(s) == mon.init_ret[s] \notin {-1, 0}

\* C38: a sensor whose ina226_init failed in PDM_Monitor_Init stays
\* uninitialized, every read and every ina226_irq_handler call made for it
\* from PDM_Monitor_Update returns 3 without a transfer, and its channel
\* stays zero; init_one is run for both sensors whatever the other's
\* outcome, a sensor whose ina226_init succeeded is initialized, and it is
\* read whenever the read task runs
C38_FailedSensorStaysOut ==
    \A s \in Sensors :
        /\ InitFailed(s) =>
               /\ mon.h[s].inited = 0
               /\ \A k \in UpdateCallsOf(s) :
                      mon.log[k].ret = 3 /\ mon.log[k].calls = <<>>
               /\ mon.ch[s] = ZeroChannel
        /\ mon.pc # "boot" => mon.init_ret[s] # -1
        /\ mon.init_ret[s] = 0 =>
               /\ mon.h[s].inited = 1
               /\ \A k \in ReadsOf(s) : mon.log[k].ret # 3
        /\ mon.fired # <<>> /\ mon.fired[1] = "read" => Cardinality(ReadsOf(s)) = 3

\* the identity read of the bus sensor failed; PDM_Monitor_Update has read
\* the battery sensor and got 3 for the bus sensor
C38_Witness ==
    /\ mon.init_ret[1] = 4 /\ mon.init_ret[2] = 0
    /\ \A k \in ReadsOf(1) : mon.log[k].ret = 3
    /\ Cardinality(ReadsOf(1)) = 3 /\ Cardinality(ReadsOf(2)) = 3
    /\ \A k \in ReadsOf(2) : mon.log[k].ret = 0
    /\ mon.ch[2].voltage_mV = 100 * UnitsPerCount /\ mon.ch[2].energy_mWh > 0

\* ina226_irq_handler has been called for a sensor whose ina226_init failed
FailedSensorHandlerCalled ==
    \E s \in Sensors :
        /\ InitFailed(s)
        /\ \E k \in UpdateCallsOf(s) : mon.log[k].fn = "irq_handler"

----------------------------------------------------------------------------
(* read_channel over two rounds of reads: both sensors are initialized,    *)
(* the reads of the bus sensor meet every pattern of faults                *)

InitChannel == InitMonitorAt(Word32(0, 0))

NextChannel ==
    \/ monitor_init({[init |-> InitOk, step |-> 0, f |-> 0]})
    \/ update_tasks(<<ChannelReadInps, AllOrNothing>>)
    \/ elapse(ReadPeriods, MaxUptime)
    \/ \E s \in Sensors :
           \/ isr(s, BetweenUpdates)
           \/ alert_test(s)
           \/ alert_clear(s)
           \/ alert_call(s)
           \/ alert_handler(s)

SpecChannel == InitChannel /\ [][NextChannel]_vars

\* the call of fn the last step has made for the sensor s
ReadOf(s, fn) == mon.log[CHOOSE k \in ReadsOf(s) : mon.log[k].fn = fn]

\* C37: read_channel issues its three reads whatever each returns; a read
\* that failed leaves its field of the channel as it was, and the energy
\* changes only when the power read succeeded
C37_ChannelFrame ==
    \A s \in Sensors :
        IF ReadsOf(s) = {} THEN mon.ch[s] = mon.before.ch[s]
        ELSE /\ {mon.log[k].fn : k \in ReadsOf(s)} = ChannelReads
             /\ Cardinality(ReadsOf(s)) = 3
             /\ ReadOf(s, "read_bus_voltage").ret # 0 =>
                    mon.ch[s].voltage_mV = mon.before.ch[s].voltage_mV
             /\ ReadOf(s, "read_current").ret # 0 =>
                    mon.ch[s].current_mA = mon.before.ch[s].current_mA
             /\ ReadOf(s, "read_power").ret # 0 =>
                    mon.ch[s].power_mW = mon.before.ch[s].power_mW
             /\ mon.ch[s].energy_mWh # mon.before.ch[s].energy_mWh =>
                    ReadOf(s, "read_power").ret = 0

\* second round of the bus sensor, whose voltage read failed in the first:
\* the voltage read succeeds, and the power read after it shows math
\* overflow and leaves the power and the energy of the first round
C37_Witness ==
    /\ ReadsOf(1) # {}
    /\ ReadOf(1, "read_bus_voltage").ret = 0
    /\ ReadOf(1, "read_current").ret = 0
    /\ ReadOf(1, "read_power").ret = 4
    /\ mon.before.ch[1].voltage_mV = 0
    /\ mon.ch[1].voltage_mV = 100 * UnitsPerCount
    /\ mon.before.ch[1].power_mW = 100 * PowerLsbFactor
    /\ mon.ch[1].power_mW = 100 * PowerLsbFactor
    /\ mon.before.ch[1].energy_mWh = 100 * PowerLsbFactor * INTERVAL_READ
    /\ mon.ch[1].energy_mWh = mon.before.ch[1].energy_mWh

----------------------------------------------------------------------------
(* The periodic tasks across the wrap-around of the tick counter: the      *)
(* counter starts 600 ms before it wraps, and PDM_Monitor_Update is called *)
(* after each of a few delays                                              *)

\* the number of delays between Update calls the tasks are followed for
MaxTickSteps == 5

\* 2^32 - 600
TickBeforeWrap == Word32(Pow2(16) - 1, Pow2(16) - 600)

\* delays between two Update calls: they add up to one millisecond less
\* than each interval, and to each interval
TickSteps == {1, 49, 450, 500}

InitTicks == InitMonitorAt(TickBeforeWrap)

\* the main loop calls PDM_Monitor_Update again and again: time passes
\* between two calls
elapse_between_updates ==
    /\ mon.now = mon.tick
    /\ mon.elapses < MaxTickSteps
    /\ elapse(TickSteps, MaxTickSteps * INTERVAL_CAN)

NextTicks ==
    \/ monitor_init({[init |-> InitOk, step |-> 0, f |-> 0]})
    \/ update_tasks([s \in Sensors |-> {[k \in 1 .. 3 |-> ReadOk]}])
    \/ elapse_between_updates
    \/ \E s \in Sensors :
           \/ isr(s, BetweenUpdates)
           \/ alert_test(s)
           \/ alert_clear(s)
           \/ alert_call(s)
           \/ alert_handler(s)

SpecTicks == InitTicks /\ [][NextTicks]_vars

\* the last step was PDM_Monitor_Update up to the alert handling
TasksDone == mon.pc = "test" /\ mon.s = 1

\* the periodic tasks the last step has run
Fired == {mon.fired[j] : j \in 1 .. Len(mon.fired)}

\* C36: a periodic task runs in an Update call exactly when at least its
\* interval has passed since it last ran, wrap-around of the tick counter
\* included; it then sets its last tick to now, so that the 32-bit
\* difference of the tick counter and the last tick is always the time
\* passed since the task last ran; and no task runs twice in one call
C36_PeriodicTasks ==
    /\ TasksDone =>
           /\ \A k \in Tasks :
                  /\ k \in Fired <=> mon.before.elapsed[k] >= Interval(k)
                  /\ k \in Fired => mon.last_tick[k] = mon.now
           /\ Len(mon.fired) = Cardinality(Fired)
    /\ mon.pc # "boot" =>
           \A k \in Tasks : Millis(Sub32(mon.tick, mon.last_tick[k])) = mon.elapsed[k]

\* the CAN task runs exactly 500 ms after it last ran, with the counter
\* wrapped in between, in an Update call in which the read task, 49 ms after
\* it last ran, does not
C36_Witness ==
    /\ TasksDone
    /\ "can" \in Fired /\ "read" \notin Fired
    /\ mon.before.elapsed["can"] = INTERVAL_CAN
    /\ mon.before.elapsed["read"] = INTERVAL_READ - 1
    /\ mon.now.hi = 0 /\ mon.now.lo < INTERVAL_CAN

----------------------------------------------------------------------------
(* The alert flags: the interrupt sets a flag at any position of the main  *)
(* loop.  No time passes, so that no periodic task is due.                 *)

\* the interrupt is taken at any position of the main loop
AnyPosition == {"idle", "test", "clear", "call", "handler"}

InitAlert == InitMonitorAt(Word32(0, 0))

\* the steps of the main loop: while (1) { PDM_Monitor_Update(); }
MainLoop ==
    \/ update_tasks([s \in Sensors |-> {NoReads}])
    \/ \E s \in Sensors :
           \/ alert_test(s)
           \/ alert_clear(s)
           \/ alert_call(s)
           \/ alert_handler(s)

NextAlert ==
    \/ monitor_init({[init |-> InitOk, step |-> 0, f |-> 0],
                     [init |-> [InitOk EXCEPT !.id = 73], step |-> 0, f |-> 0]})
    \/ MainLoop
    \/ \E s \in Sensors : isr(s, AnyPosition)

SpecAlert == InitAlert /\ [][NextAlert]_vars

\* the main loop never stops: the interrupt returns, and every call the
\* loop makes returns
FairSpecAlert == SpecAlert /\ WF_vars(MainLoop)

\* the flag of the sensor s is cleared by the statement before the call of
\* the handler, and by no other step
ClearedBeforeCall(s) ==
    mon.alert_flag[s] = 1 /\ mon'.alert_flag[s] = 0 =>
        mon.pc = "clear" /\ mon.s = s /\ mon'.pc = "call"

\* C35: a flag set at any position of the main loop is followed by a call
\* of ina226_irq_handler for its sensor, in the Update call in progress or
\* in the next one; the handler is called with the flag cleared by this
\* Update call, and nothing clears the flag but the statement before the
\* call
C35_AlertNeverLost ==
    /\ [](\A s \in Sensors :
              /\ mon.age[s] <= 1
              /\ mon.pc \in {"call", "handler"} /\ mon.s = s => mon.cleared[s])
    /\ [][\A s \in Sensors : ClearedBeforeCall(s)]_vars
    /\ \A s \in Sensors : mon.pending[s] ~> ~mon.pending[s]

\* the flag of the bus sensor is set while its handler runs, after this
\* Update call has cleared it
C35_Witness ==
    /\ mon.pc = "handler" /\ mon.s = 1
    /\ mon.cleared[1]
    /\ mon.alert_flag[1] = 1 /\ mon.pending[1]

============================================================================
